---- MODULE Spec2Model ----
(***************************************************************************)
(* Model of the flood-risk client service (services/geminiService.ts):     *)
(* getSafetyAdvice, evaluateRouteSafety and identifyDangerousSegments.     *)
(*                                                                         *)
(* Numbers.  The thresholds of the rule engine are compared with real      *)
(* readings (2.9 m, 20.1 mm).  Every reading is kept as an integer number  *)
(* of tenths: Num(20, 1) is 20.1.  A mean over stations is kept as the     *)
(* exact fraction [num, den], so that no rounding is introduced.           *)
(*                                                                         *)
(* Optional values.  null and undefined are the empty tuple << >>; a       *)
(* present value v is the one-element tuple <<v>>.                         *)
(*                                                                         *)
(* Strings.  An advice is the sequence of the pieces the code              *)
(* concatenates; the Vietnamese texts are written without diacritics.      *)
(***************************************************************************)
EXTENDS Integers, Sequences, FiniteSets, TLC

VARIABLES
    pc,        \* position of the one call in progress
    call,      \* the function called and its arguments
    response,  \* the Response the pending fetch resolved with, if any
    caught,    \* the error the catch block received, if any
    frame,     \* the local variables of the catch block when it returned
    ret        \* the promise (or value) handed back to the caller

vars == <<pc, call, response, caught, frame, ret>>

---------------------------------------------------------------------------
(* Values *)

Num(whole, tenth) == whole * 10 + tenth

None == << >>
Some(v) == <<v>>
IsNone(x) == x = << >>
Get(x) == x[1]

\* x || 0 for an optional number (undefined, null and 0 are falsy)
OrZero(x) == IF IsNone(x) THEN 0 ELSE Get(x)

\* x || d for an optional string ("" is falsy)
OrElse(x, d) == IF IsNone(x) \/ Get(x) = "" THEN d ELSE Get(x)

\* a number as a fraction
Whole(n) == [num |-> n, den |-> 1]
\* fraction > integer, the denominator being positive
FracGt(f, n) == f.num > n * f.den

\* types.ts
RiskLevel == [LOW |-> "Low", MEDIUM |-> "Medium", HIGH |-> "High", UNKNOWN |-> "Unknown"]
VehicleType == [CAR |-> "car", MOTORCYCLE |-> "motorcycle", PEDESTRIAN |-> "pedestrian"]
ConfidenceLevel == [HIGH |-> "high", MEDIUM |-> "medium", LOW |-> "low"]

---------------------------------------------------------------------------
(* getSafetyAdvice: the client-side fallback of the catch block *)

StayAlert(isEnglish) ==
    IF isEnglish THEN "Stay alert and monitor local news."
    ELSE "Hay canh giac va theo doi tin tuc dia phuong."

\* stations.reduce((sum, s) => sum + (s.luongmuatd || 0), 0)
RECURSIVE SumLuongmuatd(_)
SumLuongmuatd(stations) ==
    IF stations = << >> THEN 0
    ELSE OrZero(Head(stations).luongmuatd) + SumLuongmuatd(Tail(stations))

\* stations.reduce((sum, s) => sum + s.luongmuadb, 0)
RECURSIVE SumLuongmuadb(_)
SumLuongmuadb(stations) ==
    IF stations = << >> THEN 0
    ELSE Head(stations).luongmuadb + SumLuongmuadb(Tail(stations))

\* variant: the 15 km limit taken exclusive
stationsWithin15kmStrict(nearbyStations) ==
    SelectSeq(nearbyStations, LAMBDA s : s.distance < Num(15, 0))

\* nearbyStations.filter(s => s.distance <= 15)
stationsWithin15km(nearbyStations) ==
    SelectSeq(nearbyStations, LAMBDA s : s.distance <= Num(15, 0))


\* variant: stations beyond 15 km do not raise the confidence
StationOverrideNearOnly(data, nearbyStations) ==
    LET stations == IF IsNone(nearbyStations) THEN << >> ELSE Get(nearbyStations)
        within == SelectSeq(stations, LAMBDA s : s.distance <= Num(15, 0))
        fromElevation == IF IsNone(data.elevation) THEN ConfidenceLevel.LOW
                         ELSE ConfidenceLevel.MEDIUM
        forecast == IF IsNone(data.precipForecast6h) THEN None
                    ELSE Some(Whole(Get(data.precipForecast6h)))
    IN  IF Len(within) > 0
        THEN [precipitation |->
                  [num |-> SumLuongmuatd(within), den |-> Len(within)],
              precipForecast6h |->
                  Some([num |-> SumLuongmuadb(within), den |-> Len(within)]),
              confidence |-> ConfidenceLevel.HIGH]
        ELSE [precipitation |-> Whole(data.precipitation),
              precipForecast6h |-> forecast,
              confidence |-> fromElevation]

\* precipitation, precipForecast6h and confidence as the catch block sets them
\* before the cascade runs; nearbyStations is optional.
StationOverride(data, nearbyStations) ==
    LET stations == IF IsNone(nearbyStations) THEN << >> ELSE Get(nearbyStations)
        within == stationsWithin15km(stations)
    IN  IF ~IsNone(nearbyStations) /\ Len(stations) > 0
        THEN IF Len(within) > 0
             THEN [precipitation |->
                       [num |-> SumLuongmuatd(within), den |-> Len(within)],
                   precipForecast6h |->
                       Some([num |-> SumLuongmuadb(within), den |-> Len(within)]),
                   confidence |-> ConfidenceLevel.HIGH]
             ELSE [precipitation |-> Whole(data.precipitation),
                   precipForecast6h |->
                       IF IsNone(data.precipForecast6h) THEN None
                       ELSE Some(Whole(Get(data.precipForecast6h))),
                   confidence |-> ConfidenceLevel.HIGH]
        ELSE [precipitation |-> Whole(data.precipitation),
              precipForecast6h |->
                  IF IsNone(data.precipForecast6h) THEN None
                  ELSE Some(Whole(Get(data.precipForecast6h))),
              confidence |->
                  IF IsNone(data.elevation) THEN ConfidenceLevel.LOW
                  ELSE ConfidenceLevel.MEDIUM]

\* variant: the cascade starting from the Unknown sentinel
CascadeStartUnknown(isEnglish) ==
    [risk |-> RiskLevel.UNKNOWN, advice |-> StayAlert(isEnglish)]

\* let fallbackRisk = LOW; let fallbackAdvice = ...
CascadeStart(isEnglish) ==
    [risk |-> RiskLevel.LOW, advice |-> StayAlert(isEnglish)]

\* PRIORITY 1: Check 72h accumulated rainfall
Priority1(elevation, precip72hValue, isEnglish, cur) ==
    IF precip72hValue > Num(100, 0) /\ ~IsNone(elevation) /\ Get(elevation) < Num(10, 0)
    THEN [risk |-> RiskLevel.HIGH,
          advice |-> IF isEnglish
              THEN "Ground saturated from heavy rain (past 3 days). High flooding risk from overflowing rivers. Avoid travel."
              ELSE "Dat bao hoa do mua lon (3 ngay qua). Nguy co ngap cao do song tran bo. Tranh di chuyen."]
    ELSE IF precip72hValue > Num(100, 0)
    THEN [risk |-> RiskLevel.MEDIUM,
          advice |-> IF isEnglish
              THEN "Heavy rainfall over past 3 days. Ground saturated, flooding possible in low areas."
              ELSE "Mua lon trong 3 ngay qua. Dat bao hoa, co the ngap o vung trung."]
    ELSE IF precip72hValue > Num(50, 0) /\ ~IsNone(elevation) /\ Get(elevation) < Num(5, 0)
    THEN [risk |-> RiskLevel.MEDIUM,
          advice |-> IF isEnglish
              THEN "Moderate rain accumulation + low elevation. Watch for rising water levels."
              ELSE "Mua tich luy vua + do cao thap. Theo doi muc nuoc dang."]
    ELSE cur

\* variant: the elevation stage assigning its level whatever stage 1 set
Priority2Overwrite(elevation, isEnglish, cur) ==
    IF ~IsNone(elevation) /\ Get(elevation) < Num(3, 0)
    THEN [risk |-> RiskLevel.HIGH, advice |-> cur.advice]
    ELSE IF ~IsNone(elevation) /\ Get(elevation) < Num(10, 0)
    THEN [risk |-> RiskLevel.MEDIUM, advice |-> cur.advice]
    ELSE cur

\* PRIORITY 2: Elevation risk
Priority2(elevation, isEnglish, cur) ==
    IF ~IsNone(elevation) /\ Get(elevation) < Num(3, 0)
    THEN [risk |-> IF cur.risk = RiskLevel.LOW THEN RiskLevel.HIGH ELSE cur.risk,
          advice |-> IF isEnglish
              THEN "Low-lying area, high flood risk. Move to higher ground immediately."
              ELSE "Khu vuc thap trung, nguy co ngap cao. Di chuyen len vung cao hon ngay."]
    ELSE IF ~IsNone(elevation) /\ Get(elevation) < Num(10, 0) /\ cur.risk = RiskLevel.LOW
    THEN [risk |-> RiskLevel.MEDIUM,
          advice |-> IF isEnglish
              THEN "Medium elevation area. Monitor water levels and prepare to evacuate if needed."
              ELSE "Khu vuc co do cao trung binh. Theo doi muc nuoc va chuan bi so tan neu can."]
    ELSE cur

VeryHeavyRain(isEnglish) ==
    IF isEnglish
    THEN "Very heavy rain, high risk of flash floods or severe flooding. Avoid travel."
    ELSE "Mua rat lon, nguy co lu quet hoac ngap lut cao. Tranh di chuyen."

\* variant: very heavy rain escalating only a risk that is still Low
Priority3OnlyFromLow(precipitation, isEnglish, cur) ==
    IF FracGt(precipitation, Num(20, 0)) /\ cur.risk = RiskLevel.LOW
    THEN [risk |-> RiskLevel.HIGH, advice |-> VeryHeavyRain(isEnglish)]
    ELSE IF FracGt(precipitation, Num(10, 0)) /\ cur.risk = RiskLevel.LOW
    THEN [risk |-> RiskLevel.MEDIUM, advice |-> cur.advice]
    ELSE cur

\* variant: heavy rain setting Medium without the "still Low" guard
Priority3Unguarded(precipitation, isEnglish, cur) ==
    IF FracGt(precipitation, Num(20, 0))
    THEN [risk |-> RiskLevel.HIGH, advice |-> VeryHeavyRain(isEnglish)]
    ELSE IF FracGt(precipitation, Num(10, 0))
    THEN [risk |-> RiskLevel.MEDIUM, advice |-> cur.advice]
    ELSE cur

\* PRIORITY 3: Current precipitation risk (precipitation is a fraction)
Priority3(precipitation, isEnglish, cur) ==
    IF FracGt(precipitation, Num(20, 0))
    THEN [risk |-> RiskLevel.HIGH, advice |-> VeryHeavyRain(isEnglish)]
    ELSE IF FracGt(precipitation, Num(10, 0)) /\ cur.risk = RiskLevel.LOW
    THEN [risk |-> RiskLevel.MEDIUM,
          advice |-> IF isEnglish
              THEN "Heavy rain, limit travel. Avoid low-lying areas."
              ELSE "Mua lon, han che di chuyen. Tranh cac vung trung thap."]
    ELSE cur

\* variant: the English prefix in every language
OfflinePrefixEnglish(isEnglish) == "Offline mode. "

\* const errorPrefix = isEnglish ? "Offline mode. " : "Chế độ ngoại tuyến. "
OfflinePrefix(isEnglish) ==
    IF isEnglish THEN "Offline mode. " ELSE "Che do ngoai tuyen. "

\* The locals of the catch block at its return statement (vehicleType is in
\* scope there, and unused).
FallbackFrame(data, vehicleType, language, nearbyStations) ==
    LET isEnglish == language = "en"
        precip72hValue == OrZero(data.precip72h)
        o == StationOverride(data, nearbyStations)
        s1 == Priority1(data.elevation, precip72hValue, isEnglish, CascadeStart(isEnglish))
        s2 == Priority2(data.elevation, isEnglish, s1)
        s3 == Priority3(o.precipitation, isEnglish, s2)
    IN  [precipitation |-> o.precipitation,
         precipForecast6h |-> o.precipForecast6h,
         confidence |-> o.confidence,
         fallbackRisk |-> s3.risk,
         fallbackAdvice |-> s3.advice]

\* variant: the catch block throwing the error on
getSafetyAdviceRethrow(error, data, vehicleType, language, nearbyStations) ==
    [state |-> "rejected", reason |-> error]

\* catch (error) { ... return { risk, advice: errorPrefix + fallbackAdvice, confidence } }
getSafetyAdviceCatch(error, data, vehicleType, language, nearbyStations) ==
    LET f == FallbackFrame(data, vehicleType, language, nearbyStations)
    IN  [state |-> "fulfilled",
         value |-> [risk |-> f.fallbackRisk,
                    advice |-> <<OfflinePrefix(language = "en"), f.fallbackAdvice>>,
                    confidence |-> f.confidence]]

\* return { risk: result.risk || UNKNOWN, advice: result.advice || ..., confidence: ... }
getSafetyAdviceReturn(result, language) ==
    [state |-> "fulfilled",
     value |-> [risk |-> OrElse(result.risk, RiskLevel.UNKNOWN),
                advice |-> <<OrElse(result.advice, StayAlert(language = "en"))>>,
                confidence |-> OrElse(result.confidence, ConfidenceLevel.MEDIUM)]]

---------------------------------------------------------------------------
(* evaluateRouteSafety *)

DriveCarefully(isEnglish) ==
    IF isEnglish THEN "Drive carefully and monitor water levels."
    ELSE "Hay lai xe can than va quan sat muc nuoc."

\* variant: the fallback answering as the try block does for an empty verdict
evaluateRouteSafetyCatchUnknown(error, language) ==
    [state |-> "fulfilled",
     value |-> [risk |-> RiskLevel.UNKNOWN,
                advice |-> <<DriveCarefully(language = "en")>>]]

\* catch (error) { ... return { risk: MEDIUM, advice: fallbackAdvice } }
evaluateRouteSafetyCatch(error, language) ==
    [state |-> "fulfilled",
     value |-> [risk |-> RiskLevel.MEDIUM,
                advice |-> <<IF language = "en"
                    THEN "Offline mode. Drive carefully and avoid low-lying flooded areas."
                    ELSE "Che do ngoai tuyen. Hay lai xe can than va tranh cac vung trung thap ngap nuoc.">>]]

evaluateRouteSafetyReturn(result, language) ==
    [state |-> "fulfilled",
     value |-> [risk |-> OrElse(result.risk, RiskLevel.UNKNOWN),
                advice |-> <<OrElse(result.advice, DriveCarefully(language = "en"))>>]]

---------------------------------------------------------------------------
(* The remote call shared by getSafetyAdvice and evaluateRouteSafety *)

\* Response.ok
ok(resp) == resp.status \in 200..299

NetworkError == [name |-> "TypeError", message |-> <<"Failed to fetch">>]
JsonError == [name |-> "SyntaxError", message |-> <<"Unexpected token in JSON">>]
NullError == [name |-> "TypeError", message |-> <<"Cannot read properties of null">>]

\* throw new Error(`API request failed: ${response.status}`)
RequestFailed(resp) ==
    [name |-> "Error", message |-> <<"API request failed: ", ToString(resp.status)>>]

\* throw new Error(errorData.errorVi || errorData.error || 'Rate limit exceeded')
RateLimited(errorData) ==
    [name |-> "Error",
     message |-> <<OrElse(errorData.errorVi, OrElse(errorData.error, "Rate limit exceeded"))>>]

\* What the try block does once response.json() has settled: the error it
\* throws, or << >> when it reaches the return statement.
ThrownAfterJson(resp) ==
    IF resp.body.kind = "invalid" THEN Some(JsonError)
    ELSE IF resp.body.kind = "null" THEN Some(NullError)
    ELSE IF ~ok(resp) THEN Some(RateLimited(resp.body))
    ELSE None

\* The catch block of the function that is running.
Catch(c, error) ==
    IF c.fn = "getSafetyAdvice"
    THEN getSafetyAdviceCatch(error, c.data, c.vehicleType, c.language, c.nearbyStations)
    ELSE evaluateRouteSafetyCatch(error, c.language)

\* The return statement of the try block of the function that is running.
Return(c, result) ==
    IF c.fn = "getSafetyAdvice"
    THEN getSafetyAdviceReturn(result, c.language)
    ELSE evaluateRouteSafetyReturn(result, c.language)

\* The locals the catch block leaves (those of getSafetyAdvice; the route
\* fallback has none worth keeping).
FrameOf(c) ==
    IF c.fn = "getSafetyAdvice"
    THEN Some(FallbackFrame(c.data, c.vehicleType, c.language, c.nearbyStations))
    ELSE None

---------------------------------------------------------------------------
(* identifyDangerousSegments *)

\* Check elevation risk
ElevationCheck(elevation) ==
    IF ~IsNone(elevation) /\ Get(elevation) < Num(3, 0)
    THEN [riskLevel |-> RiskLevel.HIGH,
          reasons |-> <<[text |-> "do cao rat thap", value |-> Get(elevation)]>>]
    ELSE IF ~IsNone(elevation) /\ Get(elevation) < Num(10, 0)
    THEN [riskLevel |-> RiskLevel.MEDIUM,
          reasons |-> <<[text |-> "do cao thap", value |-> Get(elevation)]>>]
    ELSE [riskLevel |-> RiskLevel.LOW, reasons |-> << >>]

\* Number.toFixed(0) of a non-negative number of tenths, in whole units
ToFixed0(tenths) == (tenths + 5) \div 10

\* variant: the heavy-rain branch setting Medium whatever the level was
RainCheckOverwrite(data, cur) ==
    LET precipitation == data.precipitation
        totalRain == precipitation + OrZero(data.precipForecast6h)
    IN  IF totalRain > Num(30, 0)
        THEN [riskLevel |-> RiskLevel.HIGH,
              reasons |-> Append(cur.reasons,
                  [text |-> "mua lon keo dai", value |-> ToFixed0(totalRain)])]
        ELSE IF precipitation > Num(20, 0)
        THEN [riskLevel |-> RiskLevel.HIGH,
              reasons |-> Append(cur.reasons,
                  [text |-> "mua rat lon", value |-> precipitation])]
        ELSE IF precipitation > Num(10, 0) \/ totalRain > Num(20, 0)
        THEN [riskLevel |-> RiskLevel.MEDIUM,
              reasons |-> Append(cur.reasons,
                  [text |-> "mua lon", value |-> precipitation])]
        ELSE cur

\* Check precipitation risk (current + forecast)
RainCheck(data, cur) ==
    LET precipitation == data.precipitation
        totalRain == precipitation + OrZero(data.precipForecast6h)
    IN  IF totalRain > Num(30, 0)
        THEN [riskLevel |-> RiskLevel.HIGH,
              reasons |-> Append(cur.reasons,
                  [text |-> "mua lon keo dai", value |-> ToFixed0(totalRain)])]
        ELSE IF precipitation > Num(20, 0)
        THEN [riskLevel |-> RiskLevel.HIGH,
              reasons |-> Append(cur.reasons,
                  [text |-> "mua rat lon", value |-> precipitation])]
        ELSE IF precipitation > Num(10, 0) \/ totalRain > Num(20, 0)
        THEN [riskLevel |-> IF cur.riskLevel = RiskLevel.LOW THEN RiskLevel.MEDIUM
                            ELSE cur.riskLevel,
              reasons |-> Append(cur.reasons,
                  [text |-> "mua lon", value |-> precipitation])]
        ELSE cur

\* variant: the index taken as a part of eight whatever the number of samples
DistanceFromStartOfEight(index, length, totalDistance) ==
    IF totalDistance > 0
    THEN (2 * index * totalDistance + 8 * 100) \div (2 * 8 * 100)
    ELSE 0

\* parseFloat(((index / length) * (totalDistance / 1000)).toFixed(1)), in tenths
\* of a kilometre; totalDistance is in metres; a tie rounds up.
DistanceFromStart(index, length, totalDistance) ==
    IF totalDistance > 0
    THEN (2 * index * totalDistance + length * 100) \div (2 * length * 100)
    ELSE 0

\* The segment pushed for one sample, as a sequence of zero or one segment.
SegmentOf(segment, length, totalDistance) ==
    LET r == RainCheck(segment.data, ElevationCheck(segment.data.elevation))
    IN  IF r.riskLevel # RiskLevel.LOW /\ Len(r.reasons) > 0
        THEN <<[coordinates |-> segment.coords,
                segmentIndex |-> segment.index,
                riskLevel |-> r.riskLevel,
                reason |-> r.reasons,
                distanceFromStart |->
                    DistanceFromStart(segment.index, length, totalDistance)]>>
        ELSE << >>

RECURSIVE ForEachSegment(_, _, _)
ForEachSegment(rest, length, totalDistance) ==
    IF rest = << >> THEN << >>
    ELSE SegmentOf(Head(rest), length, totalDistance)
             \o ForEachSegment(Tail(rest), length, totalDistance)

\* variant: a car being let through the Medium segments
identifyDangerousSegmentsByVehicle(segmentDataWithCoords, totalDistance, vehicleType) ==
    LET all == ForEachSegment(segmentDataWithCoords, Len(segmentDataWithCoords),
                              totalDistance)
    IN  IF vehicleType = Some(VehicleType.CAR)
        THEN SelectSeq(all, LAMBDA g : g.riskLevel = RiskLevel.HIGH)
        ELSE all

\* variant: the High segments put before the others
identifyDangerousSegmentsBySeverity(segmentDataWithCoords, totalDistance, vehicleType) ==
    LET all == ForEachSegment(segmentDataWithCoords, Len(segmentDataWithCoords),
                              totalDistance)
    IN  SelectSeq(all, LAMBDA g : g.riskLevel = RiskLevel.HIGH)
            \o SelectSeq(all, LAMBDA g : g.riskLevel # RiskLevel.HIGH)

identifyDangerousSegments(segmentDataWithCoords, totalDistance, vehicleType) ==
    ForEachSegment(segmentDataWithCoords, Len(segmentDataWithCoords), totalDistance)

---------------------------------------------------------------------------
(* Numbers of the route sampling: a positive double is kept as its 53       *)
(* significant bits (most significant first) and the count of those bits    *)
(* that stand before the binary point.                                      *)

Mantissa == 53

Front(s) == SubSeq(s, 1, Len(s) - 1)

\* the binary digits of a natural number, without leading zeros
RECURSIVE ToBits(_)
ToBits(n) == IF n = 0 THEN << >> ELSE Append(ToBits(n \div 2), n % 2)

RECURSIVE FromBits(_)
FromBits(bits) ==
    IF bits = << >> THEN 0 ELSE 2 * FromBits(Front(bits)) + bits[Len(bits)]

\* the next k binary digits of rem / b, and what is left after them
RECURSIVE FracBits(_, _, _)
FracBits(rem, b, k) ==
    IF k = 0 THEN << >>
    ELSE <<(2 * rem) \div b>> \o FracBits((2 * rem) % b, b, k - 1)

RECURSIVE RemAfter(_, _, _)
RemAfter(rem, b, k) == IF k = 0 THEN rem ELSE RemAfter((2 * rem) % b, b, k - 1)

RECURSIVE IncBits(_)
IncBits(bits) ==
    IF bits = << >> THEN <<1>>
    ELSE IF bits[Len(bits)] = 0 THEN Append(Front(bits), 1)
    ELSE Append(IncBits(Front(bits)), 0)

\* bits * i + carry, for a small natural number i
RECURSIVE MulBits(_, _, _)
MulBits(bits, i, carry) ==
    IF bits = << >> THEN ToBits(carry)
    ELSE LET d == bits[Len(bits)] * i + carry
         IN  IF d % 2 = 0
             THEN Append(MulBits(Front(bits), i, d \div 2), 0)
             ELSE Append(MulBits(Front(bits), i, d \div 2), 1)

\* The double nearest to a value of which the first 53 bits are kept and the
\* rest is rounded up or down
RoundToDouble(kept, point, up) ==
    IF ~up THEN [bits |-> kept, point |-> point]
    ELSE LET inc == IncBits(kept)
         IN  IF Len(inc) > Mantissa
             THEN [bits |-> Front(inc), point |-> point + 1]
             ELSE [bits |-> inc, point |-> point]

\* a / b in double arithmetic, for integers a >= b >= 1 (round to nearest, ties
\* to even)
Divide(a, b) ==
    LET int == ToBits(a \div b)
        k == Mantissa - Len(int)
        kept == int \o FracBits(a % b, b, k)
        rest == RemAfter(a % b, b, k)
        up == 2 * rest > b \/ (2 * rest = b /\ kept[Mantissa] = 1)
    IN  RoundToDouble(kept, Len(int), up)

\* i * x in double arithmetic, for an integer i >= 1
Times(i, x) ==
    LET prod == MulBits(x.bits, i, 0)
        g == Len(prod) - Mantissa
        kept == SubSeq(prod, 1, Mantissa)
        up == /\ g > 0
              /\ prod[Mantissa + 1] = 1
              /\ \/ kept[Mantissa] = 1
                 \/ \E j \in (Mantissa + 2)..Len(prod) : prod[j] = 1
    IN  RoundToDouble(kept, x.point + g, up)

\* Math.round of a double >= 1: the nearest integer, a half going up
MathRound(x) ==
    FromBits(SubSeq(x.bits, 1, x.point))
        + (IF x.point < Mantissa THEN x.bits[x.point + 1] ELSE 0)

---------------------------------------------------------------------------
(* geoService: sampleRoutePoints *)

\* variant: every (length div numSamples)-th point from the first
sampleRoutePointsEvery(coordinates, numSamples) ==
    IF Len(coordinates) = 0 THEN << >>
    ELSE IF Len(coordinates) <= numSamples THEN coordinates
    ELSE [k \in 1..numSamples |->
              coordinates[(k - 1) * (Len(coordinates) \div numSamples) + 1]]

sampleRoutePoints(coordinates, numSamples) ==
    IF Len(coordinates) = 0 THEN << >>
    ELSE IF Len(coordinates) <= numSamples THEN coordinates
    ELSE LET step == Divide(Len(coordinates) - 1, numSamples - 1)
         IN  [k \in 1..numSamples |->
                  LET i == k - 1
                      index == IF i = 0 THEN 0 ELSE MathRound(Times(i, step))
                  IN  coordinates[index + 1]]

---------------------------------------------------------------------------
(* geoService: findNearbyNCHMFStations. Coordinates are in tenths of a      *)
(* degree and distances in tenths of a kilometre.                           *)

Abs(x) == IF x < 0 THEN -x ELSE x

\* 6371 km * pi / 180 for one degree: 11.1 km for a tenth of a degree
TenthKmPerTenthDegree == 111

\* The Haversine distance of two points of one meridian (dLon = 0, so that
\* a = sin^2(dLat / 2) and R * c = R * |dLat|)
calculateDistance(coord1, coord2) ==
    TenthKmPerTenthDegree * Abs(coord2.lat - coord1.lat)

\* { ...station, distance }
WithDistance(station, targetCoords) ==
    [id |-> station.id, lat |-> station.lat, lon |-> station.lon,
     luongmuatd |-> station.luongmuatd, luongmuadb |-> station.luongmuadb,
     distance |-> calculateDistance(targetCoords,
                      [lat |-> station.lat, lng |-> station.lon])]

\* one step of the stable sort: s goes behind every entry that is not farther
InsertByDistance(sorted, s) ==
    LET p == Cardinality({j \in 1..Len(sorted) : sorted[j].distance <= s.distance})
    IN  SubSeq(sorted, 1, p) \o <<s>> \o SubSeq(sorted, p + 1, Len(sorted))

\* .sort((a, b) => a.distance - b.distance), which is stable
RECURSIVE SortByDistance(_)
SortByDistance(stations) ==
    IF stations = << >> THEN << >>
    ELSE InsertByDistance(SortByDistance(Front(stations)), stations[Len(stations)])

\* .slice(0, end) for end >= 0
Slice0(s, end) == SubSeq(s, 1, IF end < Len(s) THEN end ELSE Len(s))

\* variant: the first maxResults stations of the radius, in list order
findNearbyNCHMFStationsUnsorted(targetCoords, allStations, radiusKm, maxResults) ==
    LET mapped == [k \in 1..Len(allStations) |->
                       WithDistance(allStations[k], targetCoords)]
    IN  Slice0(SelectSeq(mapped, LAMBDA station : station.distance <= radiusKm),
               maxResults)

findNearbyNCHMFStations(targetCoords, allStations, radiusKm, maxResults) ==
    LET mapped == [k \in 1..Len(allStations) |->
                       WithDistance(allStations[k], targetCoords)]
        filtered == SelectSeq(mapped, LAMBDA station : station.distance <= radiusKm)
    IN  Slice0(SortByDistance(filtered), maxResults)

---------------------------------------------------------------------------
(* Inputs *)

MaxStations == 2
MaxSamples == 2

SeqsUpTo(S, n) == UNION {[1..k -> S] : k \in 0..n}

Elevations ==
    {None, Some(Num(-5, 0)), Some(Num(2, 0)), Some(Num(2, 9)), Some(Num(3, 0)),
     Some(Num(4, 9)), Some(Num(5, 0)), Some(Num(9, 9)), Some(Num(10, 0))}
Precipitations == {0, Num(10, 0), Num(10, 1), Num(20, 0), Num(20, 1), Num(25, 0)}
Precip72hs ==
    {None, Some(0), Some(Num(10, 0)), Some(Num(50, 0)), Some(Num(50, 1)),
     Some(Num(100, 0)), Some(Num(100, 1))}
Forecasts == {None, Some(Num(15, 0))}
Discharges == {0, Num(25, 0)}
Vehicles == {None, Some(VehicleType.CAR), Some(VehicleType.MOTORCYCLE),
             Some(VehicleType.PEDESTRIAN)}
Languages == {"vi", "en"}

\* LocationData (types.ts); locationName plays no part and is left out
LocationDatas ==
    [elevation : Elevations, precipitation : Precipitations,
     precipForecast6h : {Some(Num(15, 0))}, precip72h : Precip72hs,
     riverDischarge : Discharges]

\* NCHMFStation & { distance }: the fields the service reads, and the id
NearbyStations ==
    {[id |-> 1, distance |-> Num(15, 0), luongmuatd |-> None, luongmuadb |-> 0],
     [id |-> 2, distance |-> Num(8, 0), luongmuatd |-> Some(Num(40, 0)),
      luongmuadb |-> Num(12, 0)],
     [id |-> 3, distance |-> Num(15, 1), luongmuatd |-> Some(Num(40, 0)),
      luongmuadb |-> Num(5, 0)]}

StationLists == {None} \cup {Some(l) : l \in SeqsUpTo(NearbyStations, MaxStations)}

\* The calls the rule engine is run on: every snapshot and station list, in
\* both languages, with and without a vehicle.
RuleVehicles == {None, Some(VehicleType.CAR)}

FallbackCalls ==
    [fn : {"getSafetyAdvice"}, data : LocationDatas, vehicleType : RuleVehicles,
     language : Languages, nearbyStations : StationLists]

\* Samples of a route: elevation and the rain pair (precipitation, forecast)
SampleRains ==
    {<<Num(10, 0), None>>, <<Num(10, 0), Some(Num(10, 0))>>,
     <<Num(10, 0), Some(Num(10, 1))>>, <<Num(10, 1), Some(0)>>,
     <<Num(20, 0), Some(Num(10, 0))>>, <<Num(20, 0), Some(Num(10, 1))>>,
     <<Num(20, 1), None>>}
SampleElevations == {None, Some(Num(2, 9)), Some(Num(3, 0)), Some(Num(10, 0))}
\* Every rain pair on ground of unknown height; on known ground the pairs that
\* tell the branches of the two checks apart
SampleReadings ==
    {r \in SampleElevations \X SampleRains :
        \/ IsNone(r[1])
        \/ /\ r[1] = Some(Num(10, 0))
           /\ r[2] \in {<<Num(10, 0), Some(Num(10, 0))>>, <<Num(10, 0), Some(Num(10, 1))>>}
        \/ /\ r[1] \in {Some(Num(2, 9)), Some(Num(3, 0))}
           /\ r[2] \in {<<Num(10, 0), None>>, <<Num(10, 1), Some(0)>>,
                        <<Num(20, 1), None>>}}
TotalDistances == {0, 12340}

\* sampledData.map((data, index) => ({ data, coords: sampledPoints[index], index }))
SegmentsWithCoords(readings, discharge) ==
    [i \in 1..Len(readings) |->
        [data |-> [elevation |-> readings[i][1],
                   precipitation |-> readings[i][2][1],
                   precipForecast6h |-> readings[i][2][2],
                   precip72h |-> None,
                   riverDischarge |-> discharge],
         coords |-> [lat |-> 10 + i, lng |-> 105 + i],
         index |-> i - 1]]

SegmentCalls ==
    {[fn |-> "identifyDangerousSegments",
      segmentDataWithCoords |-> SegmentsWithCoords(r, d),
      totalDistance |-> t, vehicleType |-> v] :
        r \in SeqsUpTo(SampleReadings, MaxSamples), d \in Discharges,
        t \in TotalDistances, v \in RuleVehicles}

---------------------------------------------------------------------------
(* Actions *)

Pending == [state |-> "pending"]

\* fetch() rejects (no network): the catch block runs and the promise settles.
FetchRejects ==
    /\ pc = "awaitFetch"
    /\ pc' = "settled"
    /\ caught' = Some(NetworkError)
    /\ frame' = FrameOf(call)
    /\ ret' = Catch(call, NetworkError)
    /\ UNCHANGED <<call, response>>

\* The synchronous identifyDangerousSegments runs to its return.
IdentifyDangerousSegments ==
    /\ pc = "called"
    /\ call.fn = "identifyDangerousSegments"
    /\ pc' = "settled"
    /\ ret' = [state |-> "returned",
               value |-> identifyDangerousSegments(call.segmentDataWithCoords,
                             call.totalDistance, call.vehicleType)]
    /\ UNCHANGED <<call, response, caught, frame>>

---------------------------------------------------------------------------
(* The rule engine on its own: every input of the point fallback (the remote *)
(* call failing at once) and of identifyDangerousSegments.                   *)

RulesInit ==
    /\ call \in FallbackCalls \cup SegmentCalls
    /\ pc = IF call.fn = "getSafetyAdvice" THEN "awaitFetch" ELSE "called"
    /\ response = None
    /\ caught = None
    /\ frame = None
    /\ ret = Pending

RulesNext == FetchRejects \/ IdentifyDangerousSegments

RulesSpec == RulesInit /\ [][RulesNext]_vars

---------------------------------------------------------------------------
(* The service with its remote call: what the server, or the network, may    *)
(* answer, over a smaller set of requests.                                   *)

RemoteDatas ==
    [elevation : {None, Some(Num(2, 0)), Some(Num(10, 0))},
     precipitation : {0, Num(25, 0)},
     precipForecast6h : Forecasts,
     precip72h : {None, Some(Num(100, 1))},
     riverDischarge : {0}]

\* i18n.language as the page passes it on: the two translations, and a
\* regional tag the detector may report
PageLanguages == Languages \cup {"en-US"}

PointCalls ==
    [fn : {"getSafetyAdvice"}, data : RemoteDatas, vehicleType : Vehicles,
     language : PageLanguages, nearbyStations : StationLists]

RouteDatas ==
    [elevation : {None, Some(Num(2, 0))}, precipitation : {0, Num(25, 0)},
     precipForecast6h : {None}, precip72h : {None}, riverDischarge : {0}]

\* RouteInfo: distance and the dangerous segments found on the route
RouteInfos ==
    {[distance |-> 12340,
      dangerousSegments |->
          identifyDangerousSegments(SegmentsWithCoords(r, 0), 12340, None)] :
        r \in SeqsUpTo({<<Some(Num(2, 9)), <<Num(20, 1), None>>>>}, 1)}

RouteCalls ==
    [fn : {"evaluateRouteSafety"}, start : RouteDatas, end : RouteDatas,
     routeInfo : RouteInfos, vehicleType : Vehicles, language : PageLanguages,
     nearbyStations : StationLists]

\* The body of a Response: not JSON at all, the JSON null, or an object of
\* which the service reads risk, advice, confidence, error and errorVi.
Body(kind, risk, advice, confidence, error, errorVi) ==
    [kind |-> kind, risk |-> risk, advice |-> advice, confidence |-> confidence,
     error |-> error, errorVi |-> errorVi]

InvalidBody == Body("invalid", None, None, None, None, None)
NullBody == Body("null", None, None, None, None, None)
EmptyObject == Body("object", None, None, None, None, None)
\* api/gemini-analysis.ts: the 429 answer of the rate limiter
RateLimitBody ==
    Body("object", None, None, None,
         Some("Too many requests. Please try again later."),
         Some("Qua nhieu yeu cau. Vui long thu lai sau."))
\* an answer carrying a verdict
VerdictBody == Body("object", Some("High"), Some("AI advice"), Some("HIGH"), None, None)

Responses ==
    {[status |-> 500, body |-> InvalidBody],
     [status |-> 429, body |-> RateLimitBody],
     [status |-> 429, body |-> InvalidBody],
     [status |-> 429, body |-> EmptyObject],
     [status |-> 200, body |-> InvalidBody],
     [status |-> 200, body |-> NullBody],
     [status |-> 200, body |-> EmptyObject],
     [status |-> 200, body |-> VerdictBody]}

Init ==
    /\ pc = "idle"
    /\ call = None
    /\ response = None
    /\ caught = None
    /\ frame = None
    /\ ret = Pending

\* getSafetyAdvice is called and runs to its await fetch(...)
CallGetSafetyAdvice ==
    /\ pc = "idle"
    /\ call' \in PointCalls
    /\ pc' = "awaitFetch"
    /\ UNCHANGED <<response, caught, frame, ret>>

\* evaluateRouteSafety is called and runs to its await fetch(...)
CallEvaluateRouteSafety ==
    /\ pc = "idle"
    /\ call' \in RouteCalls
    /\ pc' = "awaitFetch"
    /\ UNCHANGED <<response, caught, frame, ret>>

\* fetch() resolves with a Response: a status other than 2xx and 429 throws
\* at once, every other awaits response.json().
FetchResolves ==
    /\ pc = "awaitFetch"
    /\ \E resp \in Responses :
        /\ response' = Some(resp)
        /\ IF ~ok(resp) /\ resp.status # 429
           THEN /\ pc' = "settled"
                /\ caught' = Some(RequestFailed(resp))
                /\ frame' = FrameOf(call)
                /\ ret' = Catch(call, RequestFailed(resp))
           ELSE /\ pc' = "awaitJson"
                /\ UNCHANGED <<caught, frame, ret>>
    /\ UNCHANGED call

\* response.json() settles: the try block throws into the catch block, or
\* reaches its return statement.
JsonSettles ==
    /\ pc = "awaitJson"
    /\ LET resp == Get(response)
           thrown == ThrownAfterJson(resp)
       IN  IF ~IsNone(thrown)
           THEN /\ caught' = thrown
                /\ frame' = FrameOf(call)
                /\ ret' = Catch(call, Get(thrown))
           ELSE /\ ret' = Return(call, resp.body)
                /\ UNCHANGED <<caught, frame>>
    /\ pc' = "settled"
    /\ UNCHANGED <<call, response>>

Next ==
    \/ CallGetSafetyAdvice
    \/ CallEvaluateRouteSafety
    \/ FetchRejects
    \/ FetchResolves
    \/ JsonSettles

Spec == Init /\ [][Next]_vars

---------------------------------------------------------------------------
(* The two helpers of geoService on their own: every polyline length and     *)
(* sample count, every short list of stations around a target.              *)

MaxPolyline == 62
MaxNumSamples == 15
MaxAllStations == 3
MaxResults == 3

\* The meridian the points of the model lie on (105.8 E)
Meridian == Num(105, 8)

\* A polyline of len points going north from 10.0 N, a tenth of a degree apart
Polyline(len) == [k \in 1..len |-> [lat |-> Num(10, 0) + k, lng |-> Meridian]]

SampleCalls ==
    [fn : {"sampleRoutePoints"},
     coordinates : {Polyline(len) : len \in 0..MaxPolyline},
     numSamples : 2..MaxNumSamples]

\* NCHMFStation: id, position and the two rainfall fields
Station(id, lat) ==
    [id |-> id, lat |-> lat, lon |-> Meridian,
     luongmuatd |-> Some(Num(40, 0)), luongmuadb |-> Num(5, 0)]

\* Stations 11.1 km north and south of 12.0 N, and 44.4 and 55.5 km north
AllStations ==
    {Station(1, Num(12, 1)), Station(2, Num(11, 9)), Station(3, Num(12, 4)),
     Station(4, Num(12, 5))}

\* lists of different stations
DistinctSeqs(S, n) ==
    {l \in SeqsUpTo(S, n) : \A i, j \in 1..Len(l) : l[i] = l[j] => i = j}

\* 30 km and 50 km as the page asks, and a radius a station lies exactly on
Radii == {Num(30, 0), Num(44, 4), Num(50, 0)}

FindNearbyCalls ==
    [fn : {"findNearbyNCHMFStations"},
     targetCoords : {[lat |-> Num(12, 0), lng |-> Meridian],
                     [lat |-> Num(12, 4), lng |-> Meridian]},
     allStations : DistinctSeqs(AllStations, MaxAllStations),
     radiusKm : Radii,
     maxResults : 0..MaxResults]

\* The synchronous sampleRoutePoints runs to its return.
SampleRoutePoints ==
    /\ pc = "called"
    /\ call.fn = "sampleRoutePoints"
    /\ pc' = "settled"
    /\ ret' = [state |-> "returned",
               value |-> sampleRoutePoints(call.coordinates, call.numSamples)]
    /\ UNCHANGED <<call, response, caught, frame>>

\* The synchronous findNearbyNCHMFStations runs to its return.
FindNearbyNCHMFStations ==
    /\ pc = "called"
    /\ call.fn = "findNearbyNCHMFStations"
    /\ pc' = "settled"
    /\ ret' = [state |-> "returned",
               value |-> findNearbyNCHMFStations(call.targetCoords, call.allStations,
                             call.radiusKm, call.maxResults)]
    /\ UNCHANGED <<call, response, caught, frame>>

GeoInit ==
    /\ call \in SampleCalls \cup FindNearbyCalls
    /\ pc = "called"
    /\ response = None
    /\ caught = None
    /\ frame = None
    /\ ret = Pending

GeoNext == SampleRoutePoints \/ FindNearbyNCHMFStations

GeoSpec == GeoInit /\ [][GeoNext]_vars

---------------------------------------------------------------------------
(* MainPage: analyzeRoute, from the click to the verdict on the sidebar.     *)
(* call is the invocation with what its closure captured, frame the locals  *)
(* of the handler, ret the analysis state of the page.                      *)

\* sampleRoutePoints(route.coordinates, 8)
NumRouteSamples == 8

MaxRoutePoints == 10
MaxDangers == 2

\* setAnalysis({ riskLevel: UNKNOWN, advice: t(key), isLoading, type })
Notice(key, isLoading, type) ==
    Some([riskLevel |-> RiskLevel.UNKNOWN, advice |-> <<key>>,
          isLoading |-> isLoading, type |-> type, confidence |-> None])

\* sampledData.map((data, index) => ({ data, coords: sampledPoints[index], index }))
MapSegments(sampledData, sampledPoints) ==
    [k \in 1..Len(sampledData) |->
        [data |-> sampledData[k], coords |-> sampledPoints[k], index |-> k - 1]]

\* dangerousSegments.flatMap(segment => findNearbyNCHMFStations(segment.coordinates, ..., 30, 1))
RECURSIVE StationsNearDangers(_, _)
StationsNearDangers(dangerousSegments, nchmfStations) ==
    IF dangerousSegments = << >> THEN << >>
    ELSE findNearbyNCHMFStations(Head(dangerousSegments).coordinates, nchmfStations,
                                 Num(30, 0), 1)
             \o StationsNearDangers(Tail(dangerousSegments), nchmfStations)

\* self.findIndex(s => s.id === station.id), counted from 1
FindIndexById(self, id) ==
    CHOOSE j \in 1..Len(self) :
        /\ self[j].id = id
        /\ \A h \in 1..(j - 1) : self[h].id # id

\* positions of a list that pass a test, as the list of the entries there
RECURSIVE Keep(_, _, _)
Keep(self, kept, from) ==
    IF from > Len(self) THEN << >>
    ELSE (IF from \in kept THEN <<self[from]>> ELSE << >>) \o Keep(self, kept, from + 1)

\* variant: the last entry of an id kept instead of the first
UniqueByIdKeepLast(allRouteStations) ==
    Keep(allRouteStations,
         {index \in 1..Len(allRouteStations) :
             \A h \in (index + 1)..Len(allRouteStations) :
                 allRouteStations[h].id # allRouteStations[index].id}, 1)

\* allRouteStations.filter((station, index, self) =>
\*     index === self.findIndex(s => s.id === station.id))
UniqueById(allRouteStations) ==
    Keep(allRouteStations,
         {index \in 1..Len(allRouteStations) :
             index = FindIndexById(allRouteStations, allRouteStations[index].id)}, 1)

\* The locals of analyzeRoute from the sampled data to the station list it
\* hands to evaluateRouteSafety
RouteFrame(c, route, sampledPoints, sampledData) ==
    LET segmentsWithCoords == MapSegments(sampledData, sampledPoints)
        dangerousSegments ==
            identifyDangerousSegments(segmentsWithCoords, route.distance, c.vehicleType)
        stationsNearStart ==
            findNearbyNCHMFStations(c.start.coords, c.nchmfStations, Num(50, 0), 2)
        stationsNearEnd ==
            findNearbyNCHMFStations(c.end.coords, c.nchmfStations, Num(50, 0), 2)
        stationsNearDangers == StationsNearDangers(dangerousSegments, c.nchmfStations)
        allRouteStations == stationsNearStart \o stationsNearEnd \o stationsNearDangers
    IN  [route |-> route,
         sampledPoints |-> sampledPoints,
         sampledData |-> sampledData,
         dangerousSegments |-> dangerousSegments,
         startData |-> sampledData[1],
         endData |-> sampledData[Len(sampledData)],
         allRouteStations |-> allRouteStations,
         uniqueStations |-> UniqueById(allRouteStations)]

\* What fetchLocationDataBatch read at a sampled point: dry high ground, low
\* ground, or very heavy rain
DataOf(elevation, precipitation, precipForecast6h) ==
    [elevation |-> elevation, precipitation |-> precipitation,
     precipForecast6h |-> precipForecast6h, precip72h |-> Some(0),
     riverDischarge |-> 0]

DryData == DataOf(Some(Num(10, 0)), Num(10, 0), Some(Num(10, 0)))
RiskyDatas == {DataOf(Some(Num(3, 0)), Num(10, 0), Some(0)),
               DataOf(None, Num(20, 1), Some(0))}
\* the catch block of fetchLocationDataBatch
EmptyData == DataOf(None, 0, Some(0))

\* The data of len sampled points of which at most MaxDangers are risky, and
\* the empty data of a failed batch
SampledDatas(len) ==
    UNION {{[k \in 1..len |-> IF k \in D THEN f[k] ELSE DryData] :
               f \in [D -> RiskyDatas]} :
           D \in {D \in SUBSET (1..len) : Cardinality(D) <= MaxDangers}}
        \cup {[k \in 1..len |-> EmptyData]}

\* Stations 11, 33 and 89 km north of the start of the route
RouteStations ==
    <<Station(1, Num(10, 2)), Station(2, Num(10, 4)), Station(3, Num(10, 9))>>

\* nchmfStations as the closure holds it: not loaded yet, or loaded
StationStates ==
    {<< >>, RouteStations, <<RouteStations[3], RouteStations[2], RouteStations[1]>>}

\* LocationState: coords (the name plays no part)
Place(lat) == [coords |-> [lat |-> lat, lng |-> Meridian]]

\* A route from 10.1 N to the end the user chose, a point every tenth of a
\* degree
AnalyzeRouteCalls ==
    [fn : {"analyzeRoute"}, start : {Place(Num(10, 1))},
     end : {Place(Num(10, 0) + len) : len \in 2..MaxRoutePoints},
     vehicleType : {Some(VehicleType.CAR)}, language : Languages,
     nchmfStations : StationStates]

\* what evaluateRouteSafety may answer
RouteVerdicts(language) ==
    {evaluateRouteSafetyCatch(NetworkError, language).value,
     evaluateRouteSafetyReturn(VerdictBody, language).value}

---------------------------------------------------------------------------
(* MainPage: analyzePoint and the GDACS override *)

MAX_REQUESTS_PER_SESSION == 100

MaxAlerts == 2

\* variant: a point on the edge of the box counted as outside
isWithinBBoxStrict(coords, bbox) ==
    /\ coords.lat > bbox[2] /\ coords.lat < bbox[4]
    /\ coords.lng > bbox[1] /\ coords.lng < bbox[3]

\* const [minLng, minLat, maxLng, maxLat] = bbox
isWithinBBox(coords, bbox) ==
    /\ coords.lat >= bbox[2] /\ coords.lat <= bbox[4]
    /\ coords.lng >= bbox[1] /\ coords.lng <= bbox[3]

\* const order = { 'Red': 3, 'Orange': 2, 'Green': 1 }
AlertOrder(alertLevel) ==
    CASE alertLevel = "Red" -> 3
      [] alertLevel = "Orange" -> 2
      [] alertLevel = "Green" -> 1

\* one step of the stable sort: the alert goes behind every entry of its
\* level or a higher one
InsertByLevel(sorted, alert) ==
    LET p == Cardinality({j \in 1..Len(sorted) :
                 AlertOrder(sorted[j].alertLevel) >= AlertOrder(alert.alertLevel)})
    IN  SubSeq(sorted, 1, p) \o <<alert>> \o SubSeq(sorted, p + 1, Len(sorted))

\* .sort((a, b) => order[b.alertLevel] - order[a.alertLevel])
RECURSIVE SortByLevel(_)
SortByLevel(alerts) ==
    IF alerts = << >> THEN << >>
    ELSE InsertByLevel(SortByLevel(Front(alerts)), alerts[Len(alerts)])

\* variant: the first alert that contains the point
FirstAlert(matchingGDACSAlerts) == matchingGDACSAlerts[1]

\* matchingGDACSAlerts.sort(...)[0]
HighestAlert(matchingGDACSAlerts) == SortByLevel(matchingGDACSAlerts)[1]

\* the banner put before the advice
GdacsWarning(alertLevel, isEnglish, advice) ==
    IF isEnglish
    THEN <<"GDACS ", alertLevel,
           " Alert: Active flood event detected by satellite. ">> \o advice
    ELSE <<"Canh bao GDACS ", alertLevel,
           ": Phat hien lu lut dang dien ra qua ve tinh. ">> \o advice

\* The analysis analyzePoint shows once getSafetyAdvice has answered
PointAnalysis(c, aiResult) ==
    LET matchingGDACSAlerts ==
            SelectSeq(c.gdacsAlerts, LAMBDA alert : isWithinBBox(c.coords, alert.bbox))
        override ==
            /\ Len(matchingGDACSAlerts) > 0
            /\ HighestAlert(matchingGDACSAlerts).alertLevel \in {"Red", "Orange"}
    IN  [riskLevel |-> IF override THEN RiskLevel.HIGH ELSE aiResult.risk,
         advice |-> IF override
                    THEN GdacsWarning(HighestAlert(matchingGDACSAlerts).alertLevel,
                                      c.language = "en", aiResult.advice)
                    ELSE aiResult.advice,
         isLoading |-> FALSE,
         type |-> "point",
         confidence |-> Some(aiResult.confidence)]

\* GDACSFloodAlert: level and bounding box [minLng, minLat, maxLng, maxLat]
Alert(alertLevel, bbox) == [alertLevel |-> alertLevel, bbox |-> bbox]

\* Boxes with the meridian as their western and as their eastern edge, between
\* 12 N and 13 N, and a box that begins a tenth of a degree east of it
WestEdgeBox == <<Meridian, Num(12, 0), Meridian + 5, Num(13, 0)>>
EastEdgeBox == <<Meridian - 5, Num(12, 0), Meridian, Num(13, 0)>>
EastwardBox == <<Meridian + 1, Num(12, 0), Meridian + 5, Num(13, 0)>>

GdacsAlerts ==
    {Alert(l, b) : l \in {"Red", "Orange", "Green"}, b \in {WestEdgeBox, EastEdgeBox}}
        \cup {Alert("Red", EastwardBox)}

\* dry high ground, and low ground under very heavy rain
PointDatas ==
    {[elevation |-> Some(Num(10, 0)), precipitation |-> 0,
      precipForecast6h |-> Some(0), precip72h |-> Some(0), riverDischarge |-> 0],
     [elevation |-> Some(Num(2, 0)), precipitation |-> Num(25, 0),
      precipForecast6h |-> Some(0), precip72h |-> Some(0), riverDischarge |-> 0]}

\* Points of the meridian: just south of the boxes, on their southern and
\* northern edges, and just north of them
AnalyzePointCalls ==
    [fn : {"analyzePoint"},
     coords : {[lat |-> lat, lng |-> Meridian] :
                  lat \in {Num(11, 9), Num(12, 0), Num(13, 0), Num(13, 1)}},
     requestCount : {0, MAX_REQUESTS_PER_SESSION},
     vehicleType : {Some(VehicleType.CAR)},
     language : Languages,
     gdacsAlerts : SeqsUpTo(GdacsAlerts, MaxAlerts),
     nchmfStations : {<< >>, <<Station(1, Num(12, 1))>>}]

\* an answer that calls the point safe
LowVerdictBody == Body("object", Some("Low"), Some("AI advice"), Some("LOW"), None, None)

\* what getSafetyAdvice may answer: a verdict of the server, the defaults for
\* an empty answer, or the local fallback
PointVerdicts(data, vehicleType, language, nearbyStations) ==
    {getSafetyAdviceReturn(body, language).value :
         body \in {VerdictBody, LowVerdictBody, EmptyObject}}
        \cup {getSafetyAdviceCatch(NetworkError, data, vehicleType, language,
                                   Some(nearbyStations)).value}

\* analyzePoint is called: it stops at the request limit, or runs to its
\* await fetchElevation(...)
AnalyzePoint ==
    /\ pc = "idle"
    /\ call' \in AnalyzePointCalls
    /\ IF call'.requestCount >= MAX_REQUESTS_PER_SESSION
       THEN pc' = "settled" /\ UNCHANGED ret
       ELSE /\ pc' = "awaitData"
            /\ ret' = Notice("loading.loadingLocation", TRUE, "point")
    /\ UNCHANGED <<response, caught, frame>>

\* fetchElevation and fetchFloodData have resolved: the handler looks up the
\* stations and runs to its await getSafetyAdvice(...)
FetchPointDataResolves ==
    /\ pc = "awaitData"
    /\ \E data \in PointDatas :
           frame' = Some([data |-> data,
                          nearbyStations |->
                              findNearbyNCHMFStations(call.coords, call.nchmfStations,
                                                      Num(50, 0), 3)])
    /\ pc' = "awaitAdvice"
    /\ ret' = Notice("loading.analyzingRisk", TRUE, "point")
    /\ UNCHANGED <<call, response, caught>>

\* getSafetyAdvice settles: the GDACS override, and the analysis is shown
GetSafetyAdviceSettles ==
    /\ pc = "awaitAdvice"
    /\ \E aiResult \in PointVerdicts(Get(frame).data, call.vehicleType, call.language,
                                      Get(frame).nearbyStations) :
           /\ frame' = Some([data |-> Get(frame).data,
                             nearbyStations |-> Get(frame).nearbyStations,
                             aiResult |-> aiResult])
           /\ ret' = Some(PointAnalysis(call, aiResult))
    /\ pc' = "settled"
    /\ UNCHANGED <<call, response, caught>>

PageInit ==
    /\ pc = "idle"
    /\ call = None
    /\ response = None
    /\ caught = None
    /\ frame = None
    /\ ret = None

\* analyzeRoute is called and runs to its await fetchRoute(...)
AnalyzeRoute ==
    /\ pc = "idle"
    /\ call' \in AnalyzeRouteCalls
    /\ pc' = "awaitRoute"
    /\ ret' = Notice("loading.calculatingRoute", TRUE, "route")
    /\ UNCHANGED <<response, caught, frame>>

\* fetchRoute resolves with null, or with a route that is sampled at once
FetchRouteResolves ==
    /\ pc = "awaitRoute"
    /\ \/ /\ pc' = "settled"
          /\ ret' = Notice("error.noRouteFound", FALSE, "point")
          /\ UNCHANGED frame
       \/ \E distance \in TotalDistances :
             LET len == call.end.coords.lat - Num(10, 0)
                 route == [coordinates |-> Polyline(len), distance |-> distance]
             IN  /\ pc' = "awaitBatch"
                 /\ frame' = Some([route |-> route,
                                   sampledPoints |->
                                       sampleRoutePoints(route.coordinates,
                                                         NumRouteSamples)])
                 /\ ret' = Notice("loading.checkingRouteWeather", TRUE, "route")
    /\ UNCHANGED <<call, response, caught>>

\* fetchLocationDataBatch resolves: the handler runs up to its await
\* evaluateRouteSafety(...)
FetchLocationDataBatchResolves ==
    /\ pc = "awaitBatch"
    /\ \E sampledData \in SampledDatas(Len(Get(frame).sampledPoints)) :
           frame' = Some(RouteFrame(call, Get(frame).route, Get(frame).sampledPoints,
                                    sampledData))
    /\ pc' = "awaitEvaluate"
    /\ ret' = Notice("loading.analyzingRouteSafety", TRUE, "route")
    /\ UNCHANGED <<call, response, caught>>

\* evaluateRouteSafety settles and the verdict is shown
EvaluateRouteSafetySettles ==
    /\ pc = "awaitEvaluate"
    /\ \E aiResult \in RouteVerdicts(call.language) :
           ret' = Some([riskLevel |-> aiResult.risk, advice |-> aiResult.advice,
                        isLoading |-> FALSE, type |-> "route", confidence |-> None])
    /\ pc' = "settled"
    /\ UNCHANGED <<call, response, caught, frame>>

PageNext ==
    \/ AnalyzePoint
    \/ FetchPointDataResolves
    \/ GetSafetyAdviceSettles
    \/ AnalyzeRoute
    \/ FetchRouteResolves
    \/ FetchLocationDataBatchResolves
    \/ EvaluateRouteSafetySettles

PageSpec == PageInit /\ [][PageNext]_vars

---------------------------------------------------------------------------
(* api/gemini-analysis.ts: the rate limiter, the request schema and the     *)
(* handler with its own fallback                                            *)

RATE_LIMIT == 10
\* milliseconds
RATE_WINDOW == 60 * 1000

\* variant: a window that ends as soon as the clock reaches resetTime
checkRateLimitAtReset(requestCounts, ip, now) ==
    LET clientData == requestCounts[ip]
    IN  IF IsNone(clientData) \/ now >= Get(clientData).resetTime
        THEN [requestCounts |->
                  [requestCounts EXCEPT
                      ![ip] = Some([count |-> 1, resetTime |-> now + RATE_WINDOW])],
              allowed |-> TRUE, remainingRequests |-> RATE_LIMIT - 1]
        ELSE IF Get(clientData).count >= RATE_LIMIT
        THEN [requestCounts |-> requestCounts,
              allowed |-> FALSE, remainingRequests |-> 0]
        ELSE [requestCounts |->
                  [requestCounts EXCEPT
                      ![ip] = Some([count |-> Get(clientData).count + 1,
                                    resetTime |-> Get(clientData).resetTime])],
              allowed |-> TRUE,
              remainingRequests |-> RATE_LIMIT - (Get(clientData).count + 1)]

\* checkRateLimit(ip) at Date.now() = now: the Map it leaves and what it
\* returns; requestCounts.get(ip) is << >> for a client not seen yet.
checkRateLimit(requestCounts, ip, now) ==
    LET clientData == requestCounts[ip]
    IN  IF IsNone(clientData) \/ now > Get(clientData).resetTime
        THEN [requestCounts |->
                  [requestCounts EXCEPT
                      ![ip] = Some([count |-> 1, resetTime |-> now + RATE_WINDOW])],
              allowed |-> TRUE, remainingRequests |-> RATE_LIMIT - 1]
        ELSE IF Get(clientData).count >= RATE_LIMIT
        THEN [requestCounts |-> requestCounts,
              allowed |-> FALSE, remainingRequests |-> 0]
        ELSE [requestCounts |->
                  [requestCounts EXCEPT
                      ![ip] = Some([count |-> Get(clientData).count + 1,
                                    resetTime |-> Get(clientData).resetTime])],
              allowed |-> TRUE,
              remainingRequests |-> RATE_LIMIT - (Get(clientData).count + 1)]

\* z.enum([...]).optional()
OptionalEnum(value, members) == IsNone(value) \/ Get(value) \in members

\* RequestSchema.parse(req.body) does not throw. The numbers of data and the
\* fields of the stations are of the types the schema asks for in every body
\* drawn here; vehicleType and language are the strings the client sent.
RequestSchema(body) ==
    /\ OptionalEnum(body.vehicleType, {"CAR", "MOTORCYCLE", "PEDESTRIAN"})
    /\ OptionalEnum(body.language, {"vi", "en"})

\* JSON.stringify({ data, vehicleType, language, nearbyStations }) as the
\* handler reads it back: an enum member is the string it stands for, an
\* undefined property is left out.
RequestBody(c) ==
    [data |-> c.data, vehicleType |-> c.vehicleType, language |-> Some(c.language),
     nearbyStations |-> c.nearbyStations]

\* Calculate confidence based on data availability
handlerConfidence(data, nearbyStations) ==
    LET noStations == IsNone(nearbyStations) \/ Len(Get(nearbyStations)) = 0
        first == IF ~noStations THEN "HIGH"
                 ELSE IF IsNone(data.elevation) THEN "MEDIUM"
                 ELSE "HIGH"
    IN  IF /\ IsNone(data.elevation)
           /\ data.precipitation = 0
           /\ OrZero(data.precipForecast6h) = 0
           /\ OrZero(data.precip72h) = 0
           /\ noStations
        THEN "LOW"
        ELSE first

\* The catch block of the handler: fallbackRisk and fallbackAdvice after its
\* three stages, on the precipitation of the request.
handlerFallback(data, isEnglish) ==
    LET elevation == data.elevation
        precipitation == data.precipitation
        precip72hValue == OrZero(data.precip72h)
        known == ~IsNone(elevation)
        s0 == [risk |-> "Low",
               advice |-> IF isEnglish THEN "Stay alert and monitor local news."
                          ELSE "Hay canh giac va theo doi tin tuc dia phuong."]
        s1 == IF precip72hValue > Num(100, 0) /\ known /\ Get(elevation) < Num(10, 0)
              THEN [risk |-> "High",
                    advice |-> IF isEnglish
                        THEN "Ground saturated from heavy rain (past 3 days). High flooding risk from overflowing rivers. Avoid travel."
                        ELSE "Dat bao hoa do mua lon (3 ngay qua). Nguy co ngap cao do song tran bo. Tranh di chuyen."]
              ELSE IF precip72hValue > Num(100, 0)
              THEN [risk |-> "Medium",
                    advice |-> IF isEnglish
                        THEN "Heavy rainfall over past 3 days. Ground saturated, flooding possible in low areas."
                        ELSE "Mua lon trong 3 ngay qua. Dat bao hoa, co the ngap o vung trung."]
              ELSE IF precip72hValue > Num(50, 0) /\ known /\ Get(elevation) < Num(5, 0)
              THEN [risk |-> "Medium",
                    advice |-> IF isEnglish
                        THEN "Moderate rain accumulation + low elevation. Watch for rising water levels."
                        ELSE "Mua tich luy vua + do cao thap. Theo doi muc nuoc dang."]
              ELSE s0
        s2 == IF known /\ Get(elevation) < Num(3, 0)
              THEN [risk |-> IF s1.risk = "Low" THEN "High" ELSE s1.risk,
                    advice |-> IF isEnglish
                        THEN "Low-lying area, high flood risk. Move to higher ground immediately."
                        ELSE "Khu vuc thap trung, nguy co ngap cao. Di chuyen len vung cao hon ngay."]
              ELSE IF known /\ Get(elevation) < Num(10, 0) /\ s1.risk = "Low"
              THEN [risk |-> "Medium",
                    advice |-> IF isEnglish
                        THEN "Medium elevation area. Monitor water levels and prepare to evacuate if needed."
                        ELSE "Khu vuc co do cao trung binh. Theo doi muc nuoc va chuan bi so tan neu can."]
              ELSE s1
        s3 == IF precipitation > Num(20, 0)
              THEN [risk |-> "High",
                    advice |-> IF isEnglish
                        THEN "Very heavy rain, high risk of flash floods or severe flooding. Avoid travel."
                        ELSE "Mua rat lon, nguy co lu quet hoac ngap lut cao. Tranh di chuyen."]
              ELSE IF precipitation > Num(10, 0) /\ s2.risk = "Low"
              THEN [risk |-> "Medium",
                    advice |-> IF isEnglish
                        THEN "Heavy rain, limit travel. Avoid low-lying areas."
                        ELSE "Mua lon, han che di chuyen. Tranh cac vung trung thap."]
              ELSE s2
    IN  [fallbackRisk |-> s3.risk, fallbackAdvice |-> s3.advice]

\* res.status(429).json({ error, errorVi })
TooManyRequests == [status |-> 429, body |-> RateLimitBody]

\* res.status(400).json({ error: 'Invalid request data', details })
InvalidRequestData ==
    [status |-> 400,
     body |-> Body("object", None, None, None, Some("Invalid request data"), None)]

\* res.status(500).json({ error: 'Server configuration error' })
ServerConfigurationError ==
    [status |-> 500,
     body |-> Body("object", None, None, None, Some("Server configuration error"), None)]

\* res.status(200).json({ risk, advice, confidence, remainingRequests })
Analysis(risk, advice, confidence, remainingRequests) ==
    [status |-> 200,
     body |-> [kind |-> "object", risk |-> Some(risk), advice |-> Some(advice),
               confidence |-> Some(confidence), error |-> None, errorVi |-> None,
               remainingRequests |-> Some(remainingRequests)]]

\* the 200 answer of the try block for the JSON the model returned
handlerReturn(result, isEnglish, confidence, remainingRequests) ==
    Analysis(OrElse(result.risk, "UNKNOWN"),
             OrElse(result.advice,
                    IF isEnglish THEN "Stay alert and monitor local news."
                    ELSE "Hay canh giac va theo doi tin tuc dia phuong."),
             confidence, remainingRequests)

\* the 200 answer of the catch block
handlerCatch(data, isEnglish, confidence, remainingRequests) ==
    LET f == handlerFallback(data, isEnglish)
        aiErrorPrefix == IF isEnglish THEN "Unable to connect to AI. "
                         ELSE "Khong the ket noi voi AI. "
    IN  Analysis(f.fallbackRisk, aiErrorPrefix \o f.fallbackAdvice, confidence,
                 remainingRequests)

---------------------------------------------------------------------------
(* The rate limiter under requests of two clients while the clock runs. In  *)
(* this specification frame is the module's Map with the clock, call the     *)
(* request with the Map as it found it, response what checkRateLimit         *)
(* returned, and caught the history: for each client the time of the request *)
(* that opened its window and the requests made since.                       *)

MaxHalfWindows == 3
MaxAsked == 12

ClientIPs == {"203.0.113.7", "198.51.100.9"}

\* Date.now(): multiples of half a window, and the millisecond after each
Clock == {k * (RATE_WINDOW \div 2) + d : k \in 0..MaxHalfWindows, d \in {0, 1}}

\* time passes
ClockTicks ==
    /\ \E t \in Clock : t > frame.now /\ frame' = [frame EXCEPT !.now = t]
    /\ UNCHANGED <<pc, call, response, caught, ret>>

\* the requests of a client since the one that opened its window, the window
\* lasting until the clock exceeds the opening time + RATE_WINDOW
Asked(history, ip, now) ==
    IF IsNone(history[ip]) \/ now > Get(history[ip]).opened + RATE_WINDOW
    THEN [opened |-> now, asked |-> 1]
    ELSE [opened |-> Get(history[ip]).opened, asked |-> Get(history[ip]).asked + 1]

\* A POST of a client reaches the handler: checkRateLimit runs, and the
\* handler answers 429 or goes on to the validation.
HandlerChecksRateLimit ==
    /\ \E ip \in ClientIPs :
        LET rateLimit == checkRateLimit(frame.requestCounts, ip, frame.now)
            window == Asked(caught, ip, frame.now)
        IN  /\ window.asked <= MaxAsked
            /\ call' = Some([ip |-> ip, requestCounts |-> frame.requestCounts])
            /\ frame' = [frame EXCEPT !.requestCounts = rateLimit.requestCounts]
            /\ response' = Some([allowed |-> rateLimit.allowed,
                                 remainingRequests |-> rateLimit.remainingRequests,
                                 answer |-> IF rateLimit.allowed THEN None
                                            ELSE Some(TooManyRequests)])
            /\ caught' = [caught EXCEPT ![ip] = Some(window)]
    /\ pc' = "checked"
    /\ UNCHANGED ret

LimiterInit ==
    /\ pc = "idle"
    /\ call = None
    /\ response = None
    /\ caught = [ip \in ClientIPs |-> None]
    /\ frame = [requestCounts |-> [ip \in ClientIPs |-> None], now |-> 0]
    /\ ret = None

LimiterNext == ClockTicks \/ HandlerChecksRateLimit

LimiterSpec == LimiterInit /\ [][LimiterNext]_vars

---------------------------------------------------------------------------
(* The endpoint with its client: getSafetyAdvice posts a request, the       *)
(* handler answers it, getSafetyAdvice settles on the answer. In this        *)
(* specification call is the call of getSafetyAdvice, frame the server (its  *)
(* Map, its clock, whether GEMINI_API_KEY is set, the handler's locals),     *)
(* response the answer on its way, caught what the client's try block threw  *)
(* and ret the promise of getSafetyAdvice.                                   *)

\* the client whose requests are followed
ApiClient == "203.0.113.7"

\* snapshots: nothing known, low ground, high ground, all of them dry
ApiDatas ==
    [elevation : {None, Some(Num(2, 0)), Some(Num(50, 0))}, precipitation : {0},
     precipForecast6h : {Some(0)}, precip72h : {Some(0)}, riverDischarge : {0}]

\* no list, an empty list, a station 8 km away reporting 40 mm
ApiStations ==
    {None, Some(<< >>),
     Some(<<[id |-> 2, distance |-> Num(8, 0), luongmuatd |-> Some(Num(40, 0)),
             luongmuadb |-> Num(12, 0)]>>)}

ApiCalls ==
    [fn : {"getSafetyAdvice"}, data : ApiDatas, vehicleType : Vehicles,
     language : Languages, nearbyStations : ApiStations]

\* JSON.parse(response.text): a verdict, or an object without risk and advice
AiResults ==
    {[risk |-> Some("High"), advice |-> Some("AI advice")],
     [risk |-> None, advice |-> None]}

\* getSafetyAdvice is called and runs to its await fetch('/api/gemini-analysis')
PostAnalysis ==
    /\ pc \in {"idle", "settled"}
    /\ call' \in ApiCalls
    /\ pc' = "awaitFetch"
    /\ response' = None
    /\ caught' = None
    /\ ret' = Pending
    /\ frame' = [frame EXCEPT !.locals = None]

\* The handler receives the POST: rate limit, validation, API key; it answers
\* at once or runs to its await ai.models.generateContent(...)
Handler ==
    /\ pc = "awaitFetch"
    /\ LET body == RequestBody(call)
           rateLimit == checkRateLimit(frame.requestCounts, ApiClient, frame.now)
           early == IF ~rateLimit.allowed THEN Some(TooManyRequests)
                    ELSE IF ~RequestSchema(body) THEN Some(InvalidRequestData)
                    ELSE IF ~frame.apiKey THEN Some(ServerConfigurationError)
                    ELSE None
       IN  /\ response' = early
           /\ pc' = IF IsNone(early) THEN "awaitGenerateContent" ELSE "awaitResponse"
           /\ frame' = [frame EXCEPT
                  !.requestCounts = rateLimit.requestCounts,
                  !.locals = IF IsNone(early)
                      THEN Some([remainingRequests |-> rateLimit.remainingRequests,
                                 confidence |->
                                     handlerConfidence(body.data, body.nearbyStations),
                                 fallback |-> None])
                      ELSE None]
    /\ UNCHANGED <<call, caught, ret>>

\* generateContent settles: the handler answers 200 from its try block, or,
\* when the call or the parsing of its text threw, from its catch block
GenerateContentSettles ==
    /\ pc = "awaitGenerateContent"
    /\ LET body == RequestBody(call)
           isEnglish == OrElse(body.language, "vi") = "en"
           locals == Get(frame.locals)
       IN  \/ /\ \E result \in AiResults :
                     response' = Some(handlerReturn(result, isEnglish, locals.confidence,
                                                    locals.remainingRequests))
              /\ UNCHANGED frame
           \/ /\ response' = Some(handlerCatch(body.data, isEnglish, locals.confidence,
                                               locals.remainingRequests))
              /\ frame' = [frame EXCEPT
                     !.locals = Some([locals EXCEPT
                         !.fallback = Some(handlerFallback(body.data, isEnglish))])]
    /\ pc' = "awaitResponse"
    /\ UNCHANGED <<call, caught, ret>>

\* fetch resolves with the handler's answer and getSafetyAdvice runs to its
\* end: through the return statement, or through the catch block
AnalysisResponseArrives ==
    /\ pc = "awaitResponse"
    /\ LET resp == Get(response)
           thrown == IF ~ok(resp) /\ resp.status # 429 THEN Some(RequestFailed(resp))
                     ELSE ThrownAfterJson(resp)
       IN  IF ~IsNone(thrown)
           THEN /\ caught' = thrown
                /\ ret' = Catch(call, Get(thrown))
           ELSE /\ ret' = Return(call, resp.body)
                /\ UNCHANGED caught
    /\ pc' = "settled"
    /\ UNCHANGED <<call, response, frame>>

ApiInit ==
    /\ pc = "idle"
    /\ call = None
    /\ response = None
    /\ caught = None
    /\ \E apiKey \in BOOLEAN :
           frame = [requestCounts |-> [ip \in ClientIPs |-> None], now |-> 0,
                    apiKey |-> apiKey, locals |-> None]
    /\ ret = Pending

ApiNext ==
    \/ ClockTicks
    \/ PostAnalysis
    \/ Handler
    \/ GenerateContentSettles
    \/ AnalysisResponseArrives

ApiSpec == ApiInit /\ [][ApiNext]_vars

---------------------------------------------------------------------------
(* geoService: fetchWithRetry, and fetchFloodData with the three requests   *)
(* it runs at once. In this specification call is the call made, frame maps  *)
(* every request under way to the state of its fetchWithRetry (loop counter, *)
(* where it stands, the attempts and waits so far), response is the promise  *)
(* of fetchPrecipitation72h, caught what fetchFloodData caught and ret the   *)
(* promise of the function called.                                           *)

\* async function fetchWithRetry(url: string, retries = 2)
DefaultRetries == 2
MaxRetries == 2

\* a Response with the JSON it carries
JsonResponse(status, json) == [status |-> status, body |-> json]

\* what the three services answer when they answer 200
FloodJson == [daily |-> Some([river_discharge_mean |-> Some(<<Num(25, 0)>>)])]
WeatherJson ==
    [current |-> Some([precipitation |-> Num(5, 0)]),
     hourly |-> Some([precipitation |->
         Some(<<Num(2, 0), Num(2, 0), Num(2, 0), Num(2, 0), Num(2, 0), Num(2, 0),
                Num(9, 0)>>)])]
PastJson ==
    [hourly |-> Some([precipitation |-> Some(<<Num(30, 0), Num(40, 0), Num(50, 5)>>)])]
ErrorJson == [error |-> TRUE]

JsonOf(url) ==
    CASE url = "floodUrl" -> FloodJson
      [] url = "weatherUrl" -> WeatherJson
      [] OTHER -> PastJson

\* How one fetch(url) settles: it rejects, or resolves with a Response
FetchOutcomes(url) ==
    {[rejected |-> TRUE, response |-> JsonResponse(0, ErrorJson)],
     [rejected |-> FALSE, response |-> JsonResponse(503, ErrorJson)],
     [rejected |-> FALSE, response |-> JsonResponse(200, JsonOf(url))]}

\* new Error(`HTTP ${response.status}`)
HttpError(resp) == [name |-> "Error", message |-> <<"HTTP ", ToString(resp.status)>>]

\* fetchWithRetry(url, retries) at its first await fetch(url)
Started(url, retries) ==
    [url |-> url, retries |-> retries, i |-> 0, at |-> "fetch", log |-> << >>,
     response |-> None, error |-> None]

\* One turn of the loop once await fetch(url) has settled: return the
\* response that is ok; on the last turn throw; on an earlier turn a response
\* that is not ok falls out of the try block and the loop goes on at once, a
\* rejection goes to the catch block and its setTimeout.
AfterFetch(m, outcome) ==
    LET logged == [m EXCEPT !.log = Append(@, [event |-> "fetch",
                       n |-> IF outcome.rejected THEN 0 ELSE outcome.response.status])]
    IN  IF ~outcome.rejected /\ ok(outcome.response)
        THEN [logged EXCEPT !.at = "returned", !.response = Some(outcome.response)]
        ELSE IF m.i = m.retries
        THEN [logged EXCEPT !.at = "thrown",
                            !.error = Some(IF outcome.rejected THEN NetworkError
                                           ELSE HttpError(outcome.response))]
        ELSE IF ~outcome.rejected
        THEN [logged EXCEPT !.i = @ + 1]
        ELSE [logged EXCEPT !.at = "wait"]

\* await new Promise(resolve => setTimeout(resolve, 1000 * (i + 1))) is over
AfterTimeout(m) ==
    [m EXCEPT !.log = Append(@, [event |-> "wait", n |-> 1000 * (m.i + 1)]),
              !.i = @ + 1, !.at = "fetch"]

\* precipitation.reduce((sum, val) => sum + (val || 0), 0)
RECURSIVE SumPrecipitation(_)
SumPrecipitation(precipitation) ==
    IF precipitation = << >> THEN 0
    ELSE Head(precipitation) + SumPrecipitation(Tail(precipitation))

\* fetchPrecipitation72h once its fetchWithRetry has settled
fetchPrecipitation72hResult(m) ==
    IF m.at = "thrown" THEN 0
    ELSE LET data == Get(m.response).body
         IN  IF ~IsNone(data.hourly) /\ ~IsNone(Get(data.hourly).precipitation)
             THEN SumPrecipitation(Get(Get(data.hourly).precipitation))
             ELSE 0

\* catch (error) { return { discharge: 0, precip: 0, precipForecast6h: 0, precip72h: 0 } }
fetchFloodDataCatch(error) ==
    [state |-> "fulfilled",
     value |-> [discharge |-> 0, precip |-> 0, precipForecast6h |-> 0, precip72h |-> 0]]

\* the try block of fetchFloodData after its Promise.all has resolved
fetchFloodDataReturn(floodRes, weatherRes, precip72h) ==
    LET floodData == floodRes.body
        weatherData == weatherRes.body
        discharge ==
            IF ok(floodRes) /\ ~IsNone(floodData.daily)
                            /\ ~IsNone(Get(floodData.daily).river_discharge_mean)
            THEN Get(Get(floodData.daily).river_discharge_mean)[1]
            ELSE 0
        precip ==
            IF ok(weatherRes) /\ ~IsNone(weatherData.current)
            THEN Get(weatherData.current).precipitation
            ELSE 0
        precipForecast6h ==
            IF ok(weatherRes) /\ ~IsNone(weatherData.hourly)
                              /\ ~IsNone(Get(weatherData.hourly).precipitation)
            THEN SumPrecipitation(Slice0(Get(Get(weatherData.hourly).precipitation), 6))
            ELSE 0
    IN  [state |-> "fulfilled",
         value |-> [discharge |-> discharge, precip |-> precip,
                    precipForecast6h |-> precipForecast6h, precip72h |-> precip72h]]

FetchCalls ==
    {[fn |-> "fetchWithRetry", retries |-> r] : r \in 0..MaxRetries}
        \cup {[fn |-> "fetchFloodData", retries |-> DefaultRetries]}

\* the requests a call starts before its first await
Requests(c) ==
    IF c.fn = "fetchWithRetry" THEN {"url"} ELSE {"floodUrl", "weatherUrl", "url72h"}

\* the promise of fetchWithRetry for a loop that has ended
Settled(m) ==
    IF m.at = "returned" THEN [state |-> "fulfilled", value |-> Get(m.response)]
    ELSE [state |-> "rejected", reason |-> Get(m.error)]

\* await fetch(url) of one request settles and its loop takes a turn
FetchSettles ==
    /\ \E url \in DOMAIN frame :
        /\ frame[url].at = "fetch"
        /\ \E outcome \in FetchOutcomes(url) :
            LET m == AfterFetch(frame[url], outcome)
            IN  /\ frame' = [frame EXCEPT ![url] = m]
                /\ IF call.fn = "fetchWithRetry" /\ m.at \in {"returned", "thrown"}
                   THEN pc' = "settled" /\ ret' = Settled(m)
                   ELSE UNCHANGED <<pc, ret>>
    /\ UNCHANGED <<call, response, caught>>

\* the backoff timer of one request fires
BackoffEnds ==
    /\ \E url \in DOMAIN frame :
        /\ frame[url].at = "wait"
        /\ frame' = [frame EXCEPT ![url] = AfterTimeout(frame[url])]
    /\ UNCHANGED <<pc, call, response, caught, ret>>

\* fetchPrecipitation72h settles once its request has ended
FetchPrecipitation72hSettles ==
    /\ call.fn = "fetchFloodData"
    /\ IsNone(response)
    /\ frame["url72h"].at \in {"returned", "thrown"}
    /\ response' = Some([state |-> "fulfilled",
                         value |-> fetchPrecipitation72hResult(frame["url72h"])])
    /\ UNCHANGED <<pc, call, caught, frame, ret>>

\* Promise.all settles and fetchFloodData runs to its end: it rejects with
\* the first rejection among its promises, or resolves once all have resolved
FetchFloodDataSettles ==
    /\ call.fn = "fetchFloodData"
    /\ pc = "awaitAll"
    /\ \/ \E url \in {"floodUrl", "weatherUrl"} :
            /\ frame[url].at = "thrown"
            /\ caught' = frame[url].error
            /\ ret' = fetchFloodDataCatch(Get(frame[url].error))
       \/ /\ frame["floodUrl"].at = "returned"
          /\ frame["weatherUrl"].at = "returned"
          /\ ~IsNone(response)
          /\ ret' = fetchFloodDataReturn(Get(frame["floodUrl"].response),
                                         Get(frame["weatherUrl"].response),
                                         Get(response).value)
          /\ UNCHANGED caught
    /\ pc' = "settled"
    /\ UNCHANGED <<call, response, frame>>

FetchInit ==
    /\ call \in FetchCalls
    /\ pc = IF call.fn = "fetchWithRetry" THEN "awaitFetch" ELSE "awaitAll"
    /\ frame = [url \in Requests(call) |-> Started(url, call.retries)]
    /\ response = None
    /\ caught = None
    /\ ret = Pending

FetchNext ==
    \/ FetchSettles
    \/ BackoffEnds
    \/ FetchPrecipitation72hSettles
    \/ FetchFloodDataSettles

FetchSpec == FetchInit /\ [][FetchNext]_vars

---------------------------------------------------------------------------
(* geoService.fetchElevation and its cache in localStorage, under calls for *)
(* several points at once. In this specification frame is the browser (the   *)
(* item 'elevation_cache' of localStorage, parsed, and the clock) and call   *)
(* maps every cache key to the call of fetchElevation made for it, if any:   *)
(* where it stands, the item it read on entry (kept while the call awaits),   *)
(* whether it fetched, and what it returned.                                 *)

\* milliseconds
CACHE_DURATION == 7 * 24 * 60 * 60 * 1000

MaxKeys == 2
MaxWeeks == 1

\* `${coords.lat.toFixed(3)},${coords.lng.toFixed(3)}` of the points a batch
\* asks for
CacheKeyList == <<"10.100,105.800", "10.200,105.800", "10.300,105.800", "10.400,105.800">>
CacheKeys == {CacheKeyList[n] : n \in 1..MaxKeys}

\* JSON.parse of an item that was never set: {}
EmptyCache == [k \in CacheKeys |-> None]

\* the validation of cache[cacheKey] at Date.now() = now
ValidCachedData(cachedData, now) ==
    /\ ~IsNone(cachedData)
    /\ ~IsNone(Get(cachedData).elevation)
    /\ Get(Get(cachedData).elevation) >= Num(-500, 0)
    /\ Get(Get(cachedData).elevation) <= Num(9000, 0)
    /\ now - Get(cachedData).time < CACHE_DURATION

\* data?.results?.[0]?.elevation ?? null of the answers drawn: a height, or
\* an answer without one
FetchedElevations == {Some(Num(12, 0)), None}

\* const cache = cached ? JSON.parse(cached) : {}; cache[cacheKey] = {...};
\* localStorage.setItem(...): cached is the item read on entry, item the one
\* stored now
SaveToCache(cached, item, cacheKey, elevation, now) ==
    LET cache == IF IsNone(cached) THEN EmptyCache ELSE Get(cached)
    IN  Some([cache EXCEPT ![cacheKey] = Some([elevation |-> elevation, time |-> now])])

\* time passes
WeekPasses ==
    /\ frame.now < MaxWeeks * CACHE_DURATION
    /\ frame' = [frame EXCEPT !.now = @ + CACHE_DURATION]
    /\ UNCHANGED <<pc, call, response, caught, ret>>

\* the keys of the calls that are awaiting their fetch
Awaiting == {k \in CacheKeys : IF IsNone(call[k]) THEN FALSE
                                ELSE Get(call[k]).at = "awaitFetch"}

\* fetchElevation is called for a point: it returns the cached height, or
\* runs to its await fetchWithRetry(...); alongside notes the calls under way
\* at that moment
FetchElevation ==
    /\ \E cacheKey \in CacheKeys :
        /\ IF IsNone(call[cacheKey]) THEN TRUE
           ELSE Get(call[cacheKey]).at = "returned"
        /\ LET cached == frame.item
               cachedData == IF IsNone(cached) THEN None ELSE Get(cached)[cacheKey]
           IN  call' = [call EXCEPT ![cacheKey] =
                   IF ValidCachedData(cachedData, frame.now)
                   THEN Some([at |-> "returned", cached |-> None, fetched |-> FALSE,
                              elevation |-> Get(cachedData).elevation,
                              alongside |-> Awaiting])
                   ELSE Some([at |-> "awaitFetch", cached |-> cached, fetched |-> FALSE,
                              elevation |-> None, alongside |-> Awaiting])]
    /\ UNCHANGED <<pc, response, caught, frame, ret>>

\* fetchWithRetry and response.json() have resolved: the call saves the
\* height to the cache and returns it
FetchElevationResolves ==
    /\ \E cacheKey \in CacheKeys :
        /\ cacheKey \in Awaiting
        /\ \E elevation \in FetchedElevations :
            /\ frame' = [frame EXCEPT !.item =
                   SaveToCache(Get(call[cacheKey]).cached, frame.item, cacheKey,
                               elevation, frame.now)]
            /\ call' = [call EXCEPT ![cacheKey] =
                   Some([Get(call[cacheKey]) EXCEPT
                       !.at = "returned", !.cached = None, !.fetched = TRUE,
                       !.elevation = elevation])]
    /\ UNCHANGED <<pc, response, caught, ret>>

\* fetchWithRetry has rejected: the call returns null and saves nothing
FetchElevationRejects ==
    /\ \E cacheKey \in CacheKeys :
        /\ cacheKey \in Awaiting
        /\ call' = [call EXCEPT ![cacheKey] =
               Some([Get(call[cacheKey]) EXCEPT !.at = "returned", !.cached = None])]
    /\ UNCHANGED <<pc, response, caught, frame, ret>>

CacheInit ==
    /\ pc = "running"
    /\ call = [k \in CacheKeys |-> None]
    /\ response = None
    /\ caught = None
    /\ frame = [item |-> None, now |-> 0]
    /\ ret = None

CacheNext ==
    \/ WeekPasses
    \/ FetchElevation
    \/ FetchElevationResolves
    \/ FetchElevationRejects

CacheSpec == CacheInit /\ [][CacheNext]_vars

---------------------------------------------------------------------------
(* MainPage over a session: its state, the callbacks useCallback keeps from  *)
(* one render to the next, the refreshes of the effects, and one analysis at *)
(* a time. In this specification frame is the state of the latest render     *)
(* (with the counts of the refreshes so far), call the memoized analyzePoint  *)
(* and analyzeRoute, each with the values of the render that created it, pc   *)
(* the analysis under way and ret the latest call of a handler: the state it  *)
(* found, the callback that ran, and what it did.                             *)

MaxStationLoads == 1
MaxGdacsLoads == 1
MaxVehicleChanges == 1

\* the list the n-th run of loadNCHMFStations delivers, n = 0 standing for
\* the initial state []
StationsLoaded(n) == IF n = 0 THEN << >> ELSE <<Station(n, Num(12, 1))>>

\* the point the analyses are asked for
SessionPoint == [lat |-> Num(12, 0), lng |-> Meridian]

\* what analyzePoint created by the render of state s reads from its closure
PointClosure(s) ==
    [requestCount |-> s.requestCount, nchmfStations |-> s.nchmfStations,
     vehicleType |-> s.vehicleType]

\* what analyzeRoute created by the render of state s reads from its closure
RouteClosure(s) == [nchmfStations |-> s.nchmfStations, vehicleType |-> s.vehicleType]

\* The render after a state change, useCallback keeping a callback unless one
\* of its dependencies has changed: analyzePoint depends on
\* [t, i18n, vehicleType, gdacsAlerts], analyzeRoute on [t, i18n, vehicleType]
Render(s, gdacsAlertsChanged, vehicleTypeChanged) ==
    [analyzePoint |-> IF gdacsAlertsChanged \/ vehicleTypeChanged
                      THEN PointClosure(s) ELSE call.analyzePoint,
     analyzeRoute |-> IF vehicleTypeChanged
                      THEN RouteClosure(s) ELSE call.analyzeRoute]

\* loadNCHMFStations (on mount, then every 30 minutes) resolves and
\* setNchmfStations(stations) renders the page
LoadNCHMFStations ==
    /\ frame.stationLoads < MaxStationLoads
    /\ LET s == [frame EXCEPT !.stationLoads = @ + 1,
                              !.nchmfStations = StationsLoaded(frame.stationLoads + 1)]
       IN  /\ frame' = s
           /\ call' = Render(s, FALSE, FALSE)
    /\ UNCHANGED <<pc, response, caught, ret>>

\* loadGDACSAlerts (on mount, then every 6 hours) resolves and
\* setGdacsAlerts(alerts), a new array, renders the page
LoadGDACSAlerts ==
    /\ frame.gdacsLoads < MaxGdacsLoads
    /\ LET s == [frame EXCEPT !.gdacsLoads = @ + 1]
       IN  /\ frame' = s
           /\ call' = Render(s, TRUE, FALSE)
    /\ UNCHANGED <<pc, response, caught, ret>>

\* the user picks another vehicle in VehicleSelector: setVehicleType
SetVehicleType ==
    /\ frame.vehicleChanges < MaxVehicleChanges
    /\ \E v \in {VehicleType.CAR, VehicleType.MOTORCYCLE} \ {frame.vehicleType} :
        LET s == [frame EXCEPT !.vehicleChanges = @ + 1, !.vehicleType = v]
        IN  /\ frame' = s
            /\ call' = Render(s, FALSE, TRUE)
    /\ UNCHANGED <<pc, response, caught, ret>>

\* what a handler call leaves in ret: the state it was called in, the list
\* its closure holds, whether it stopped at the limit, and later the list it
\* passed to findNearbyNCHMFStations with the stations found
Called(fn, closure, limited) ==
    Some([fn |-> fn, requestCount |-> frame.requestCount,
          nchmfStations |-> frame.nchmfStations, analysis |-> frame.analysis,
          closure |-> [nchmfStations |-> closure.nchmfStations],
          limited |-> limited, passed |-> None])

\* analyzePoint of the latest render is called (a click on the map, once its
\* timeout has fired): it shows the limit message and returns, or counts the
\* request, resets the analysis and runs to its await fetchElevation(...)
CallAnalyzePoint ==
    /\ pc = "idle"
    /\ frame.requestCount <= MAX_REQUESTS_PER_SESSION
    /\ LET closure == call.analyzePoint
       IN  IF closure.requestCount >= MAX_REQUESTS_PER_SESSION
           THEN /\ ret' = Called("analyzePoint", closure, TRUE)
                /\ UNCHANGED <<pc, frame, call>>
           ELSE LET s == [frame EXCEPT
                              !.requestCount = @ + 1,
                              !.analysis = Notice("loading.loadingLocation", TRUE, "point")]
                IN  /\ ret' = Called("analyzePoint", closure, FALSE)
                    /\ pc' = "awaitPoint"
                    /\ frame' = s
                    /\ call' = Render(s, FALSE, FALSE)
    /\ UNCHANGED <<response, caught>>

\* the awaits of analyzePoint resolve: between fetchFloodData and
\* getSafetyAdvice it looks up the stations near the point in the list of its
\* closure, and at its end it shows the analysis
AnalyzePointSettles ==
    /\ pc = "awaitPoint"
    /\ LET closure == Get(ret).closure
           nearbyStations == findNearbyNCHMFStations(SessionPoint, closure.nchmfStations,
                                                     Num(50, 0), 3)
           s == [frame EXCEPT !.analysis =
                    Some([riskLevel |-> RiskLevel.LOW, advice |-> <<"AI advice">>,
                          isLoading |-> FALSE, type |-> "point",
                          confidence |-> Some(ConfidenceLevel.MEDIUM)])]
       IN  /\ ret' = Some([Get(ret) EXCEPT
                      !.passed = Some([allStations |-> closure.nchmfStations,
                                       nearbyStations |-> nearbyStations])])
           /\ frame' = s
           /\ call' = Render(s, FALSE, FALSE)
    /\ pc' = "idle"
    /\ UNCHANGED <<response, caught>>

\* analyzeRoute of the latest render is called (Find Safe Route) and runs to
\* its await fetchRoute(...)
CallAnalyzeRoute ==
    /\ pc = "idle"
    /\ LET s == [frame EXCEPT
                    !.analysis = Notice("loading.calculatingRoute", TRUE, "route")]
       IN  /\ ret' = Called("analyzeRoute", call.analyzeRoute, FALSE)
           /\ frame' = s
           /\ call' = Render(s, FALSE, FALSE)
    /\ pc' = "awaitRoute"
    /\ UNCHANGED <<response, caught>>

\* the awaits of analyzeRoute resolve: before evaluateRouteSafety it looks up
\* the stations near the start and the end in the list of its closure, and at
\* its end it shows the verdict
AnalyzeRouteSettles ==
    /\ pc = "awaitRoute"
    /\ LET closure == Get(ret).closure
           stationsNearStart == findNearbyNCHMFStations(SessionPoint,
                                    closure.nchmfStations, Num(50, 0), 2)
           s == [frame EXCEPT !.analysis =
                    Some([riskLevel |-> RiskLevel.MEDIUM, advice |-> <<"AI advice">>,
                          isLoading |-> FALSE, type |-> "route", confidence |-> None])]
       IN  /\ ret' = Some([Get(ret) EXCEPT
                      !.passed = Some([allStations |-> closure.nchmfStations,
                                       nearbyStations |-> stationsNearStart])])
           /\ frame' = s
           /\ call' = Render(s, FALSE, FALSE)
    /\ pc' = "idle"
    /\ UNCHANGED <<response, caught>>

\* the first render: useState(0), useState([]), useState(VehicleType.CAR)
SessionInit ==
    /\ pc = "idle"
    /\ frame = [requestCount |-> 0, nchmfStations |-> StationsLoaded(0),
                vehicleType |-> VehicleType.CAR, analysis |-> None,
                stationLoads |-> 0, gdacsLoads |-> 0, vehicleChanges |-> 0]
    /\ call = [analyzePoint |-> PointClosure(frame), analyzeRoute |-> RouteClosure(frame)]
    /\ response = None
    /\ caught = None
    /\ ret = None

SessionNext ==
    \/ LoadNCHMFStations
    \/ LoadGDACSAlerts
    \/ SetVehicleType
    \/ CallAnalyzePoint
    \/ AnalyzePointSettles
    \/ CallAnalyzeRoute
    \/ AnalyzeRouteSettles

SessionSpec == SessionInit /\ [][SessionNext]_vars

---------------------------------------------------------------------------
(* MainPage.analyzePoint under clicks that follow one another before the     *)
(* analysis of the earlier click has finished. In this specification pc maps *)
(* every call of analyzePoint to the await it stands at, call maps it to its *)
(* arguments and locals, frame is the state of the page with the memoized    *)
(* analyzePoint, and ret lists the calls in the order they returned.         *)

MaxCalls == 2

\* the calls of analyzePoint, numbered in the order they are made
CallIds == 1..MaxCalls

\* a point of low ground under very heavy rain and a point of dry high ground
RaceCoords == {[lat |-> Num(10, 0), lng |-> Meridian], [lat |-> Num(12, 0), lng |-> Meridian]}

\* what fetchElevation may resolve with for a point: its height, or null
ElevationsAt(coords) ==
    {Some(IF coords.lat = Num(10, 0) THEN Num(2, 0) ELSE Num(50, 0)), None}

\* what fetchFloodData may resolve with for a point: its readings, or the
\* zeros of its catch block
FloodDatasAt(coords) ==
    {[discharge |-> 0,
      precip |-> IF coords.lat = Num(10, 0) THEN Num(25, 0) ELSE 0,
      precipForecast6h |-> 0, precip72h |-> 0],
     fetchFloodDataCatch(NetworkError).value}

\* const data: LocationData = { elevation, precipitation: floodData.precip, ... },
\* the name being the coordinates of the click with four decimals
AnalyzePointData(coords, elevation, floodData) ==
    [elevation |-> elevation,
     precipitation |-> floodData.precip,
     precipForecast6h |-> Some(floodData.precipForecast6h),
     precip72h |-> Some(floodData.precip72h),
     riverDischarge |-> floodData.discharge,
     locationName |-> <<coords.lat * 1000, ", ", coords.lng * 1000>>]

\* the positions of a call that has been made and has not returned
Awaits == {"awaitElevation", "awaitFloodData", "awaitAdvice"}

\* the locals of a call that has just been made
RaceLocals(coords, overlaps) ==
    Some([coords |-> coords, overlaps |-> overlaps, elevation |-> None,
          data |-> None, shown |-> None])

\* the timeout of handleMapClick fires and analyzePoint(coords) runs to its
\* await fetchElevation(coords), whatever the earlier calls are waiting for
\* (the sidebar, the centre of the map and the route state, which it also
\* sets, are read by no analysis)
ClickMap ==
    \E id \in CallIds, coords \in RaceCoords :
        /\ pc[id] = "notCalled"
        /\ \A j \in 1..(id - 1) : pc[j] # "notCalled"
        /\ IF frame.analyzePoint.requestCount >= MAX_REQUESTS_PER_SESSION
           THEN /\ pc' = [pc EXCEPT ![id] = "returned"]
                /\ call' = [call EXCEPT ![id] =
                               RaceLocals(coords, {j \in CallIds : pc[j] \in Awaits})]
                /\ ret' = Append(ret, id)
                /\ UNCHANGED frame
           ELSE /\ pc' = [pc EXCEPT ![id] = "awaitElevation"]
                /\ call' = [call EXCEPT ![id] =
                               RaceLocals(coords, {j \in CallIds : pc[j] \in Awaits})]
                /\ frame' = [frame EXCEPT
                                !.requestCount = @ + 1,
                                !.selectedLocationData = None,
                                !.analysis = Notice("loading.loadingLocation", TRUE, "point")]
                /\ UNCHANGED ret
        /\ UNCHANGED <<response, caught>>

\* fetchElevation resolves for a call, which runs to its await fetchFloodData
ElevationResolves ==
    \E id \in CallIds :
        /\ pc[id] = "awaitElevation"
        /\ \E elevation \in ElevationsAt(Get(call[id]).coords) :
               call' = [call EXCEPT ![id] = Some([Get(call[id]) EXCEPT !.elevation = elevation])]
        /\ pc' = [pc EXCEPT ![id] = "awaitFloodData"]
        /\ frame' = [frame EXCEPT
                        !.analysis = Notice("loading.checkingWeather", TRUE, "point")]
        /\ UNCHANGED <<response, caught, ret>>

\* fetchFloodData resolves for a call, which shows the data of its point and
\* runs to its await getSafetyAdvice
FloodDataResolves ==
    \E id \in CallIds :
        /\ pc[id] = "awaitFloodData"
        /\ \E floodData \in FloodDatasAt(Get(call[id]).coords) :
            LET data == AnalyzePointData(Get(call[id]).coords, Get(call[id]).elevation,
                                         floodData)
            IN  /\ call' = [call EXCEPT ![id] = Some([Get(call[id]) EXCEPT !.data = Some(data)])]
                /\ frame' = [frame EXCEPT
                                !.selectedLocationData = Some(data),
                                !.analysis = Notice("loading.analyzingRisk", TRUE, "point")]
        /\ pc' = [pc EXCEPT ![id] = "awaitAdvice"]
        /\ UNCHANGED <<response, caught, ret>>

\* getSafetyAdvice resolves for a call, which shows its analysis and returns
AdviceResolves ==
    \E id \in CallIds :
        /\ pc[id] = "awaitAdvice"
        /\ LET closure == frame.analyzePoint
               local == Get(call[id])
               nearbyStations == findNearbyNCHMFStations(local.coords,
                                     closure.nchmfStations, Num(50, 0), 3)
           IN  \E aiResult \in PointVerdicts(Get(local.data), Some(closure.vehicleType),
                                             closure.language, nearbyStations) :
                LET shown == PointAnalysis([coords |-> local.coords,
                                            gdacsAlerts |-> closure.gdacsAlerts,
                                            language |-> closure.language], aiResult)
                IN  /\ call' = [call EXCEPT ![id] = Some([local EXCEPT !.shown = Some(shown)])]
                    /\ frame' = [frame EXCEPT !.analysis = Some(shown)]
        /\ pc' = [pc EXCEPT ![id] = "returned"]
        /\ ret' = Append(ret, id)
        /\ UNCHANGED <<response, caught>>

\* the page after its first render, no click made
RaceInit ==
    /\ pc = [id \in CallIds |-> "notCalled"]
    /\ call = [id \in CallIds |-> None]
    /\ frame = [requestCount |-> 0, selectedLocationData |-> None,
                analysis |-> None,
                analyzePoint |-> [requestCount |-> 0, nchmfStations |-> << >>,
                                  gdacsAlerts |-> << >>,
                                  vehicleType |-> VehicleType.CAR, language |-> "vi"]]
    /\ response = None
    /\ caught = None
    /\ ret = << >>

RaceNext ==
    \/ ClickMap
    \/ ElevationResolves
    \/ FloodDataResolves
    \/ AdviceResolves

RaceSpec == RaceInit /\ [][RaceNext]_vars

---------------------------------------------------------------------------
(* Properties *)

\* Low < Medium < High
Rank(risk) ==
    CASE risk = RiskLevel.LOW -> 1
      [] risk = RiskLevel.MEDIUM -> 2
      [] risk = RiskLevel.HIGH -> 3

Levels == {RiskLevel.LOW, RiskLevel.MEDIUM, RiskLevel.HIGH}
Confidences == {ConfidenceLevel.LOW, ConfidenceLevel.MEDIUM, ConfidenceLevel.HIGH}

NonEmptyAdvice(advice) ==
    /\ Len(advice) > 0
    /\ \A i \in 1..Len(advice) : advice[i] # ""

\* getSafetyAdvice has returned through its catch block
PointFallback ==
    /\ pc = "settled"
    /\ call.fn = "getSafetyAdvice"
    /\ ~IsNone(caught)

\* no station list, or an empty one
NoStations == IsNone(call.nearbyStations) \/ Get(call.nearbyStations) = << >>

\* The risk the point fallback returns for the call of the state with its
\* snapshot replaced by data
RiskFor(data) ==
    getSafetyAdviceCatch(Get(caught), data, call.vehicleType, call.language,
                         call.nearbyStations).value.risk

\* C1: the point fallback is total: for every elevation (null or a number),
\* precipitation, precip72h (or none) and station list it returns, without
\* throwing, a risk among Low, Medium, High, a confidence among low, medium,
\* high and a non-empty advice.
C1_FallbackTotal ==
    PointFallback =>
        /\ ret.state = "fulfilled"
        /\ ret.value.risk \in Levels
        /\ ret.value.risk # RiskLevel.UNKNOWN
        /\ ret.value.confidence \in Confidences
        /\ NonEmptyAdvice(ret.value.advice)

C1_Witness ==
    /\ PointFallback
    /\ IsNone(call.data.elevation)
    /\ call.data.precipitation = 0
    /\ IsNone(call.data.precip72h)
    /\ call.nearbyStations = Some(<<>>)
    /\ ret.state = "fulfilled"
    /\ ret.value.risk = RiskLevel.LOW

\* C2: with elevation known and below 10, raising precip72h within 50..100.1,
\* all else fixed, never lowers the risk of the point fallback.
C2_Monotone72h ==
    (/\ PointFallback
     /\ ~IsNone(call.data.elevation)
     /\ Get(call.data.elevation) < Num(10, 0)
     /\ OrZero(call.data.precip72h) >= Num(50, 0)
     /\ OrZero(call.data.precip72h) <= Num(100, 1))
    => \A b \in Precip72hs :
           (/\ ~IsNone(b)
            /\ OrZero(call.data.precip72h) <= Get(b)
            /\ Get(b) <= Num(100, 1))
           => Rank(ret.value.risk) <= Rank(RiskFor([call.data EXCEPT !.precip72h = b]))

\* C3: with elevation known and below 3 m the point fallback returns High,
\* whatever precip72h and precipitation are.
C3_LowElevationHigh ==
    (/\ PointFallback
     /\ ~IsNone(call.data.elevation)
     /\ Get(call.data.elevation) < Num(3, 0))
    => ret.value.risk = RiskLevel.HIGH

\* C4: the risk only rises from stage to stage: after the elevation stage it
\* is at least what the 72h stage left, and the returned risk, left by the
\* current-precipitation stage, is at least what the elevation stage left.
C4_StagesOnlyRise ==
    PointFallback =>
        LET isEnglish == call.language = "en"
            s1 == Priority1(call.data.elevation, OrZero(call.data.precip72h),
                            isEnglish, CascadeStart(isEnglish))
            s2 == Priority2(call.data.elevation, isEnglish, s1)
            s3 == Priority3(Get(frame).precipitation, isEnglish, s2)
        IN  /\ Rank(s1.risk) <= Rank(s2.risk)
            /\ Rank(s2.risk) <= Rank(s3.risk)
            /\ ret.value.risk = s3.risk

\* stage 1 sets Medium, stage 2 leaves it, stage 3 raises it to High
C4_Witness ==
    /\ PointFallback
    /\ call.data.elevation = Some(Num(4, 9))
    /\ call.data.precip72h = Some(Num(50, 1))
    /\ call.data.precipitation = Num(20, 1)
    /\ NoStations
    /\ ret.value.risk = RiskLevel.HIGH

\* The stations of the call's list that lie within 15 km, by position
Within15 ==
    IF IsNone(call.nearbyStations) THEN {}
    ELSE {i \in 1..Len(Get(call.nearbyStations)) :
              Get(call.nearbyStations)[i].distance <= Num(15, 0)}

\* The sum of rainfallNow (luongmuatd, null counting 0) over positions W
RECURSIVE RainNowSum(_)
RainNowSum(W) ==
    IF W = {} THEN 0
    ELSE LET i == CHOOSE x \in W : TRUE
             now == Get(call.nearbyStations)[i].luongmuatd
         IN  (IF now = None THEN 0 ELSE now[1]) + RainNowSum(W \ {i})

\* C5: whenever the precipitation the cascade uses exceeds 20 mm the point
\* fallback returns High with the "very heavy rain, avoid travel" advice,
\* whatever the earlier stages set; elevation 2, precipitation 25, precip72h 10
\* and no stations give High with confidence medium.
C5_VeryHeavyRainHigh ==
    PointFallback =>
        /\ FracGt(Get(frame).precipitation, Num(20, 0)) =>
               /\ ret.value.risk = RiskLevel.HIGH
               /\ ret.value.advice =
                      <<OfflinePrefix(call.language = "en"),
                        VeryHeavyRain(call.language = "en")>>
        /\ (/\ call.data.elevation = Some(Num(2, 0))
            /\ call.data.precipitation = Num(25, 0)
            /\ call.data.precip72h = Some(Num(10, 0))
            /\ NoStations) =>
               /\ ret.value.risk = RiskLevel.HIGH
               /\ ret.value.confidence = ConfidenceLevel.MEDIUM

\* the earlier stages had set High with another advice (saturated ground, then
\* low-lying area) before the rain stage overwrote it
C5_Witness ==
    /\ PointFallback
    /\ call.data.elevation = Some(Num(2, 0))
    /\ call.data.precipitation = Num(25, 0)
    /\ call.data.precip72h = Some(Num(100, 1))
    /\ NoStations
    /\ call.language = "en"
    /\ ret.value.advice = <<"Offline mode. ", VeryHeavyRain(TRUE)>>

\* C6: raising precipitation within 10..20.1, all else fixed, never lowers the
\* risk of the point fallback.
C6_MonotonePrecipitation ==
    (/\ PointFallback
     /\ call.data.precipitation >= Num(10, 0)
     /\ call.data.precipitation <= Num(20, 1))
    => \A b \in Precipitations :
           (call.data.precipitation <= b /\ b <= Num(20, 1))
           => Rank(ret.value.risk) <= Rank(RiskFor([call.data EXCEPT !.precipitation = b]))

\* at an elevation below 3 the risk is High at 10 mm and stays High at 10.1 mm
C6_Witness ==
    /\ PointFallback
    /\ call.data.elevation = Some(Num(2, 9))
    /\ call.data.precipitation = Num(10, 0)
    /\ OrZero(call.data.precip72h) = 0
    /\ NoStations
    /\ ret.value.risk = RiskLevel.HIGH
    /\ RiskFor([call.data EXCEPT !.precipitation = Num(10, 1)]) = RiskLevel.HIGH

\* C7: the confidence of the point fallback is high when at least one station
\* is supplied (within 15 km or beyond), else low when elevation is null, else
\* medium, whatever the risk; elevation null with no rain and no stations gives
\* risk Low with confidence low.
C7_ConfidencePolicy ==
    PointFallback =>
        /\ ret.value.confidence =
               IF ~NoStations THEN ConfidenceLevel.HIGH
               ELSE IF IsNone(call.data.elevation) THEN ConfidenceLevel.LOW
               ELSE ConfidenceLevel.MEDIUM
        /\ (Within15 # {} /\ IsNone(call.data.elevation)) =>
               ret.value.confidence = ConfidenceLevel.HIGH
        /\ (/\ IsNone(call.data.elevation)
            /\ call.data.precipitation = 0
            /\ OrZero(call.data.precip72h) = 0
            /\ NoStations) =>
               /\ ret.value.risk = RiskLevel.LOW
               /\ ret.value.confidence = ConfidenceLevel.LOW

\* only stations beyond 15 km, elevation null: confidence high
C7_Witness ==
    /\ PointFallback
    /\ IsNone(call.data.elevation)
    /\ ~NoStations
    /\ Within15 = {}
    /\ ret.value.confidence = ConfidenceLevel.HIGH

\* C8: with a station within 15 km the current-precipitation stage uses the
\* mean of rainfallNow over exactly the stations within 15 km (null counting
\* 0) instead of the snapshot's precipitation; with none, the snapshot's
\* precipitation unchanged.
C8_StationMeanUsed ==
    PointFallback =>
        LET isEnglish == call.language = "en"
            used == IF Within15 # {}
                    THEN [num |-> RainNowSum(Within15), den |-> Cardinality(Within15)]
                    ELSE [num |-> call.data.precipitation, den |-> 1]
            s2 == Priority2(call.data.elevation, isEnglish,
                      Priority1(call.data.elevation, OrZero(call.data.precip72h),
                                isEnglish, CascadeStart(isEnglish)))
        IN  /\ Get(frame).precipitation = used
            /\ ret.value.risk =
                   IF used.num > Num(20, 0) * used.den THEN RiskLevel.HIGH
                   ELSE IF used.num > Num(10, 0) * used.den /\ s2.risk = RiskLevel.LOW
                        THEN RiskLevel.MEDIUM
                   ELSE s2.risk

\* a null reading at exactly 15 km and 40 mm at 8 km: the mean is 20 mm, so a
\* snapshot of 25 mm does not make the risk High
C8_Witness ==
    /\ PointFallback
    /\ call.data.precipitation = Num(25, 0)
    /\ IsNone(call.data.elevation)
    /\ Cardinality(Within15) = 2
    /\ Get(frame).precipitation = [num |-> Num(40, 0), den |-> 2]
    /\ ret.value.risk = RiskLevel.MEDIUM

\* identifyDangerousSegments has returned
SegmentsReturned ==
    /\ pc = "settled"
    /\ call.fn = "identifyDangerousSegments"

\* The samples of the call with riverDischarge replaced, sample by sample
WithDischarges(segments, ds) ==
    [i \in 1..Len(segments) |->
        [segments[i] EXCEPT !.data.riverDischarge = ds[i]]]

\* Which samples were flagged, and at which level
FlaggedLevels(found) ==
    [i \in 1..Len(found) |->
        [segmentIndex |-> found[i].segmentIndex, riskLevel |-> found[i].riskLevel]]

\* C9: risk levels do not depend on the vehicle or on river discharge: the
\* point fallback, and identifyDangerousSegments, run again with any other
\* vehicleType and any other riverDischarge, return the same risk level(s) and
\* the same confidence.
C9_VehicleAndDischargeIgnored ==
    /\ PointFallback =>
           \A v \in Vehicles, d \in Discharges :
               LET other == getSafetyAdviceCatch(Get(caught),
                                [call.data EXCEPT !.riverDischarge = d], v,
                                call.language, call.nearbyStations)
               IN  /\ other.state = ret.state
                   /\ other.value.risk = ret.value.risk
                   /\ other.value.confidence = ret.value.confidence
    /\ SegmentsReturned =>
           \A v \in Vehicles :
               \A ds \in [1..Len(call.segmentDataWithCoords) -> Discharges] :
                   FlaggedLevels(identifyDangerousSegments(
                       WithDischarges(call.segmentDataWithCoords, ds),
                       call.totalDistance, v)) = FlaggedLevels(ret.value)

\* a car on a route with a Medium sample followed by a High one
C9_Witness ==
    /\ SegmentsReturned
    /\ call.vehicleType = Some(VehicleType.CAR)
    /\ Len(call.segmentDataWithCoords) = 2
    /\ call.segmentDataWithCoords[1].data.riverDischarge = Num(25, 0)
    /\ Len(ret.value) = 2
    /\ ret.value[1].riskLevel = RiskLevel.MEDIUM
    /\ ret.value[2].riskLevel = RiskLevel.HIGH

\* The remote call of the state failed: no Response at all, a status outside
\* 2xx (429 with or without a JSON body included), or a body that is not JSON
RemoteFailed ==
    \/ IsNone(response)
    \/ ~ok(Get(response))
    \/ Get(response).body.kind = "invalid"

\* C10: getSafetyAdvice and evaluateRouteSafety never reject: whatever the
\* remote call did (network error, status outside 2xx, 429 with or without a
\* JSON body, unparseable body) the promise is fulfilled with a risk level and
\* a non-empty advice, and no part of the error reaches the caller.
C10_NeverRejects ==
    pc = "settled" =>
        /\ ret.state = "fulfilled"
        /\ RemoteFailed =>
               /\ ~IsNone(caught)
               /\ ret.value.risk \in Levels
               /\ NonEmptyAdvice(ret.value.advice)
               /\ \A i \in 1..Len(ret.value.advice) :
                      \A j \in 1..Len(Get(caught).message) :
                          ret.value.advice[i] # Get(caught).message[j]

\* a 429 whose body is not JSON
C10_Witness ==
    /\ pc = "settled"
    /\ call.fn = "getSafetyAdvice"
    /\ response = Some([status |-> 429, body |-> InvalidBody])
    /\ ret.state = "fulfilled"
    /\ ret.value.risk \in Levels

\* C11: a result getSafetyAdvice produces through its catch block has an
\* advice made of the offline prefix of the language ("Offline mode. " for
\* "en", the Vietnamese prefix for every other language) followed by the
\* advice the cascade left; a result of the try block is the answer's advice
\* (or the stay-alert default) with no prefix put before it.
C11_OfflinePrefix ==
    (pc = "settled" /\ call.fn = "getSafetyAdvice") =>
        IF ~IsNone(caught)
        THEN /\ Len(ret.value.advice) = 2
             /\ ret.value.advice[1] =
                    (IF call.language = "en" THEN "Offline mode. "
                     ELSE "Che do ngoai tuyen. ")
             /\ ret.value.advice[2] = Get(frame).fallbackAdvice
        ELSE /\ Len(ret.value.advice) = 1
             /\ ret.value.advice[1] =
                    OrElse(Get(response).body.advice, StayAlert(call.language = "en"))
             /\ ret.value.advice[1] \notin {"Offline mode. ", "Che do ngoai tuyen. "}

\* a regional English tag gets the Vietnamese prefix
C11_Witness ==
    /\ pc = "settled"
    /\ call.fn = "getSafetyAdvice"
    /\ call.language = "en-US"
    /\ ~IsNone(caught)
    /\ ret.value.advice[1] = "Che do ngoai tuyen. "
    /\ ret.value.risk = RiskLevel.HIGH

\* The fixed advice of the route fallback
RouteOfflineAdvice(language) ==
    IF language = "en"
    THEN "Offline mode. Drive carefully and avoid low-lying flooded areas."
    ELSE "Che do ngoai tuyen. Hay lai xe can than va tranh cac vung trung thap ngap nuoc."

\* C12: when the remote route evaluation fails, evaluateRouteSafety answers
\* Medium with the fixed offline advice of the language, whatever the start
\* and end snapshots, the dangerous segments, the vehicle and the stations.
C12_RouteFallbackFixed ==
    (pc = "settled" /\ call.fn = "evaluateRouteSafety"
         /\ (RemoteFailed \/ ~IsNone(caught))) =>
        /\ ret.state = "fulfilled"
        /\ ret.value.risk = RiskLevel.MEDIUM
        /\ ret.value.advice = <<RouteOfflineAdvice(call.language)>>

\* a route whose start the point cascade would call High, with a dangerous
\* segment and stations
C12_Witness ==
    /\ pc = "settled"
    /\ call.fn = "evaluateRouteSafety"
    /\ ~IsNone(caught)
    /\ call.start.elevation = Some(Num(2, 0))
    /\ call.start.precipitation = Num(25, 0)
    /\ Len(call.routeInfo.dangerousSegments) = 1
    /\ ~IsNone(call.nearbyStations)
    /\ call.vehicleType = Some(VehicleType.MOTORCYCLE)
    /\ ret.value.risk = RiskLevel.MEDIUM

\* The level the computation of identifyDangerousSegments reaches for a sample
ComputedRisk(data) == RainCheck(data, ElevationCheck(data.elevation)).riskLevel

\* no low ground, no rain to speak of
Quiet(data) ==
    /\ IsNone(data.elevation) \/ Get(data.elevation) >= Num(10, 0)
    /\ data.precipitation <= Num(10, 0)
    /\ data.precipitation + OrZero(data.precipForecast6h) <= Num(20, 0)

\* C18: identifyDangerousSegments returns exactly the samples whose computed
\* risk is above Low, one segment each, in the order of the samples whatever
\* their severity; no segment is Low, and a sample on ground of 10 m or more
\* (or unknown) with precipitation <= 10 and precipitation + forecast <= 20
\* gives no segment.
C18_SegmentsAreTheRiskySamples ==
    (pc = "settled" /\ call.fn = "identifyDangerousSegments") =>
        LET samples == call.segmentDataWithCoords
            risky == SelectSeq(samples,
                         LAMBDA s : ComputedRisk(s.data) # RiskLevel.LOW)
        IN  /\ Len(ret.value) = Len(risky)
            /\ \A k \in 1..Len(risky) :
                   /\ ret.value[k].segmentIndex = risky[k].index
                   /\ ret.value[k].coordinates = risky[k].coords
                   /\ ret.value[k].riskLevel \in {RiskLevel.MEDIUM, RiskLevel.HIGH}
            /\ \A i \in 1..Len(samples) :
                   Quiet(samples[i].data) =>
                       \A k \in 1..Len(ret.value) :
                           ret.value[k].segmentIndex # samples[i].index

\* a Medium sample before a High one, returned in that order
C18_Witness ==
    /\ pc = "settled"
    /\ call.fn = "identifyDangerousSegments"
    /\ call.vehicleType = None
    /\ Len(call.segmentDataWithCoords) = 2
    /\ Len(ret.value) = 2
    /\ ret.value[1].segmentIndex = 0
    /\ ret.value[1].riskLevel = RiskLevel.MEDIUM
    /\ ret.value[2].segmentIndex = 1
    /\ ret.value[2].riskLevel = RiskLevel.HIGH

\* The level the rules assign: High on very low ground or very heavy rain,
\* else Medium on low ground or heavy rain, else Low
SampleRisk(data) ==
    LET totalRain == data.precipitation + OrZero(data.precipForecast6h)
        known == ~IsNone(data.elevation)
    IN  IF \/ known /\ Get(data.elevation) < Num(3, 0)
           \/ totalRain > Num(30, 0)
           \/ data.precipitation > Num(20, 0)
        THEN RiskLevel.HIGH
        ELSE IF \/ known /\ Get(data.elevation) < Num(10, 0)
                \/ data.precipitation > Num(10, 0)
                \/ totalRain > Num(20, 0)
        THEN RiskLevel.MEDIUM
        ELSE RiskLevel.LOW

\* C19: with totalRain = precipitation + forecast (a missing forecast being
\* 0), the level of a sample is High iff elevation is known and < 3, or
\* totalRain > 30, or precipitation > 20; otherwise Medium iff elevation is
\* known and < 10, or precipitation > 10, or totalRain > 20; otherwise Low.
\* The rain check never lowers the level the elevation check set.
C19_SampleRisk ==
    (pc = "settled" /\ call.fn = "identifyDangerousSegments") =>
        LET samples == call.segmentDataWithCoords
        IN  /\ \A i \in 1..Len(samples) :
                   /\ ComputedRisk(samples[i].data) = SampleRisk(samples[i].data)
                   /\ Rank(ComputedRisk(samples[i].data))
                          >= Rank(ElevationCheck(samples[i].data.elevation).riskLevel)
            /\ \A k \in 1..Len(ret.value) :
                   ret.value[k].riskLevel
                       = SampleRisk(samples[ret.value[k].segmentIndex + 1].data)

\* very low ground under heavy (not very heavy) rain stays High
C19_Witness ==
    /\ pc = "settled"
    /\ call.fn = "identifyDangerousSegments"
    /\ Len(call.segmentDataWithCoords) = 1
    /\ call.segmentDataWithCoords[1].data.elevation = Some(Num(2, 9))
    /\ call.segmentDataWithCoords[1].data.precipitation = Num(10, 1)
    /\ call.segmentDataWithCoords[1].data.precipForecast6h = Some(0)
    /\ Len(ret.value) = 1
    /\ ret.value[1].riskLevel = RiskLevel.HIGH

\* The stations of the call that lie within its radius, by position in the list
InRadius ==
    {i \in 1..Len(call.allStations) :
        calculateDistance(call.targetCoords,
            [lat |-> call.allStations[i].lat, lng |-> call.allStations[i].lon])
                <= call.radiusKm}

\* C15: findNearbyNCHMFStations returns at most maxResults stations, each a
\* station of the list with its distance from the target, each within
\* radiusKm, in ascending order of distance, and the nearest ones: no station
\* of the radius that was left out is strictly closer than a returned one. It
\* returns the empty list when the list is empty or no station is in the radius.
C15_NearestWithinRadius ==
    (pc = "settled" /\ call.fn = "findNearbyNCHMFStations") =>
        LET found == ret.value
            all == call.allStations
            returned == {i \in 1..Len(all) :
                            \E k \in 1..Len(found) : found[k].id = all[i].id}
        IN  /\ Len(found) <= call.maxResults
            /\ Len(found) = Cardinality(returned)
            /\ \A k \in 1..Len(found) :
                   /\ found[k].distance <= call.radiusKm
                   /\ \E i \in InRadius :
                          /\ found[k].id = all[i].id
                          /\ found[k].distance =
                                 TenthKmPerTenthDegree
                                     * Abs(all[i].lat - call.targetCoords.lat)
            /\ \A j, k \in 1..Len(found) :
                   j < k => found[j].distance <= found[k].distance
            /\ \A i \in InRadius \ returned :
                   /\ Len(found) = call.maxResults
                   /\ \A k \in 1..Len(found) :
                          found[k].distance
                              <= TenthKmPerTenthDegree
                                     * Abs(all[i].lat - call.targetCoords.lat)
            /\ (all = << >> \/ InRadius = {}) => found = << >>

\* three stations in the radius, the farthest first in the list and one lying
\* exactly on the radius: the two nearest come back, nearest first
C15_Witness ==
    /\ pc = "settled"
    /\ call.fn = "findNearbyNCHMFStations"
    /\ call.targetCoords.lat = Num(12, 0)
    /\ call.radiusKm = Num(44, 4)
    /\ call.maxResults = 2
    /\ Len(call.allStations) = 3
    /\ call.allStations[1].id = 3
    /\ call.allStations[2].id = 2
    /\ call.allStations[3].id = 1
    /\ Len(ret.value) = 2
    /\ ret.value[1].id = 2
    /\ ret.value[2].id = 1

\* The index the i-th sample would have were i * (len - 1) / (n - 1) computed
\* exactly and rounded to the nearest integer, a half going up
RoundedIndex(i, len, n) == (2 * i * (len - 1) + (n - 1)) \div (2 * (n - 1))

\* i * (len - 1) / (n - 1) lies exactly half-way between two integers
HalfWay(i, len, n) ==
    /\ (2 * i * (len - 1)) % (n - 1) = 0
    /\ ((2 * i * (len - 1)) \div (n - 1)) % 2 = 1

\* C17 as stated: sampleRoutePoints(polyline, n) returns the polyline
\* unchanged when its length is <= n; when it is longer it returns exactly n
\* points, the i-th being polyline[round(i * (len - 1) / (n - 1))].
C17_RoundedIndices ==
    (pc = "settled" /\ call.fn = "sampleRoutePoints") =>
        LET polyline == call.coordinates
            n == call.numSamples
        IN  IF Len(polyline) <= n THEN ret.value = polyline
            ELSE /\ Len(ret.value) = n
                 /\ \A k \in 1..n :
                        ret.value[k]
                            = polyline[RoundedIndex(k - 1, Len(polyline), n) + 1]

\* C17, amended: sampleRoutePoints(polyline, n) returns the polyline unchanged
\* when its length is <= n; when it is longer it returns exactly n points,
\* the first and the last of the polyline at the two ends, and the i-th is
\* polyline[round(i * (len - 1) / (n - 1))] wherever that quotient is not
\* exactly half-way between two integers (it never is for n = 8); at a
\* half-way value the i-th is one of the two neighbouring points.
C17_SampledIndices ==
    (pc = "settled" /\ call.fn = "sampleRoutePoints") =>
        LET polyline == call.coordinates
            len == Len(polyline)
            n == call.numSamples
        IN  IF len <= n THEN ret.value = polyline
            ELSE /\ Len(ret.value) = n
                 /\ ret.value[1] = polyline[1]
                 /\ ret.value[n] = polyline[len]
                 /\ \A k \in 1..n :
                        IF HalfWay(k - 1, len, n)
                        THEN /\ n # 8
                             /\ ret.value[k] \in
                                    {polyline[RoundedIndex(k - 1, len, n)],
                                     polyline[RoundedIndex(k - 1, len, n) + 1]}
                        ELSE ret.value[k] = polyline[RoundedIndex(k - 1, len, n) + 1]

\* 62 points sampled 15 times: 7 * (61 / 14) is 30.499999999999996 in double
\* arithmetic, and the eighth sample is polyline[30], not polyline[31]
C17_Witness ==
    /\ pc = "settled"
    /\ call.fn = "sampleRoutePoints"
    /\ Len(call.coordinates) = 62
    /\ call.numSamples = 15
    /\ Len(ret.value) = 15
    /\ ret.value[8] = call.coordinates[31]
    /\ ret.value[1] = call.coordinates[1]
    /\ ret.value[15] = call.coordinates[62]

\* analyzeRoute has built the arguments of evaluateRouteSafety
RouteEvaluated ==
    /\ pc \in {"awaitEvaluate", "settled"}
    /\ call.fn = "analyzeRoute"
    /\ ~IsNone(frame)

\* analyzePoint has shown its analysis
PointAnalysed ==
    /\ pc = "settled"
    /\ call.fn = "analyzePoint"
    /\ ~IsNone(frame)

\* The levels of the fetched alerts whose box, edges included, holds the point
MatchingLevels ==
    {call.gdacsAlerts[i].alertLevel : i \in
        {i \in 1..Len(call.gdacsAlerts) :
            LET bbox == call.gdacsAlerts[i].bbox
            IN  /\ bbox[2] <= call.coords.lat /\ call.coords.lat <= bbox[4]
                /\ bbox[1] <= call.coords.lng /\ call.coords.lng <= bbox[3]}}

\* The banner of a level in a language
Banner(level, language) ==
    IF language = "en"
    THEN <<"GDACS ", level, " Alert: Active flood event detected by satellite. ">>
    ELSE <<"Canh bao GDACS ", level, ": Phat hien lu lut dang dien ra qua ve tinh. ">>

\* C13: if the analysed point lies in the bounding box, edges included, of a
\* fetched alert whose level is Red or Orange, the risk analyzePoint shows is
\* High and the advice is the alert banner followed by the advice
\* getSafetyAdvice returned, whatever risk that was (Low included); the
\* confidence is the one getSafetyAdvice returned.
C13_GdacsOverride ==
    (PointAnalysed /\ MatchingLevels \cap {"Red", "Orange"} # {}) =>
        LET aiResult == Get(frame).aiResult
            analysis == Get(ret)
        IN  /\ analysis.riskLevel = RiskLevel.HIGH
            /\ \E level \in {"Red", "Orange"} :
                   analysis.advice = Banner(level, call.language) \o aiResult.advice
            /\ analysis.confidence = Some(aiResult.confidence)
            /\ ~analysis.isLoading

\* a point on the corner of an Orange box, called Low by the server
C13_Witness ==
    /\ PointAnalysed
    /\ call.coords.lat = Num(13, 0)
    /\ call.gdacsAlerts = <<Alert("Orange", EastEdgeBox)>>
    /\ Get(frame).aiResult.risk = RiskLevel.LOW
    /\ Get(frame).aiResult.confidence = "LOW"
    /\ Get(ret).riskLevel = RiskLevel.HIGH
    /\ Get(ret).confidence = Some("LOW")

\* C14: of several alerts that contain the point the highest under
\* Red > Orange > Green is used: the banner names Red if any of them is Red,
\* otherwise Orange if any is Orange; if all of them are Green, risk and
\* advice are those getSafetyAdvice returned.
C14_HighestAlert ==
    (PointAnalysed /\ MatchingLevels # {}) =>
        LET aiResult == Get(frame).aiResult
            analysis == Get(ret)
        IN  IF "Red" \in MatchingLevels
            THEN analysis.advice = Banner("Red", call.language) \o aiResult.advice
            ELSE IF "Orange" \in MatchingLevels
            THEN analysis.advice = Banner("Orange", call.language) \o aiResult.advice
            ELSE /\ analysis.riskLevel = aiResult.risk
                 /\ analysis.advice = aiResult.advice

\* a Green alert listed before a Red one, both containing the point
C14_Witness ==
    /\ PointAnalysed
    /\ call.coords.lat = Num(12, 0)
    /\ call.gdacsAlerts = <<Alert("Green", WestEdgeBox), Alert("Red", EastEdgeBox)>>
    /\ Get(ret).advice[2] = "Red"
    /\ Get(ret).riskLevel = RiskLevel.HIGH

\* The position in a list of the first entry with an id
FirstOf(list, id) ==
    CHOOSE j \in 1..Len(list) :
        list[j].id = id /\ \A h \in 1..Len(list) : list[h].id = id => j <= h

\* C16: the station list analyzeRoute hands to evaluateRouteSafety holds no
\* two stations with the same id; every id found near the start, the end or a
\* dangerous segment is in it; the entry kept for an id is its first
\* occurrence in the order start lookup, end lookup, dangerous-segment
\* lookups; and the kept entries stand in the order of those occurrences.
C16_UniqueStations ==
    RouteEvaluated =>
        LET found == Get(frame).allRouteStations
            unique == Get(frame).uniqueStations
        IN  /\ \A j, k \in 1..Len(unique) : unique[j].id = unique[k].id => j = k
            /\ \A i \in 1..Len(found) :
                   \E k \in 1..Len(unique) : unique[k].id = found[i].id
            /\ \A k \in 1..Len(unique) :
                   /\ \E i \in 1..Len(found) : found[i].id = unique[k].id
                   /\ unique[k] = found[FirstOf(found, unique[k].id)]
            /\ \A j, k \in 1..Len(unique) :
                   j < k => FirstOf(found, unique[j].id) < FirstOf(found, unique[k].id)

\* a station 11 km from the start is found again 33 km from the end and next
\* to a dangerous segment, and is handed on once, with its distance from the
\* start
C16_Witness ==
    /\ RouteEvaluated
    /\ Len(Get(frame).allRouteStations) = 5
    /\ Len(Get(frame).uniqueStations) = 2
    /\ Get(frame).allRouteStations[1].id = 1
    /\ Get(frame).allRouteStations[4].id = 1
    /\ Get(frame).allRouteStations[4].distance = 3 * TenthKmPerTenthDegree
    /\ Get(frame).allRouteStations[5].id = 1
    /\ Get(frame).uniqueStations[1].id = 1
    /\ Get(frame).uniqueStations[1].distance = TenthKmPerTenthDegree

\* (index / count) * (totalDistance / 1000) to the nearest tenth of a
\* kilometre, in tenths; totalDistance is in metres
TenthsOfKm(index, count, totalDistance) ==
    (2 * index * totalDistance + count * 100) \div (2 * count * 100)

\* C20 as stated: for every emitted dangerous segment, distanceFromStart is
\* (sequenceIndex / 8) * (totalDistance / 1000) rounded to one decimal, 8
\* being the configured number of route samples, for routes of any number
\* of polyline points; it is 0 when totalDistance is not positive.
C20_DistanceOverEight ==
    RouteEvaluated =>
        \A k \in 1..Len(Get(frame).dangerousSegments) :
            LET segment == Get(frame).dangerousSegments[k]
                totalDistance == Get(frame).route.distance
            IN  segment.distanceFromStart =
                    IF totalDistance > 0
                    THEN TenthsOfKm(segment.segmentIndex, 8, totalDistance)
                    ELSE 0

\* C20, amended: for every emitted dangerous segment, distanceFromStart is
\* (sequenceIndex / count) * (totalDistance / 1000) rounded to one decimal,
\* count being the number of samples taken of the route: the number of
\* polyline points when the polyline has at most 8 of them, and 8 otherwise;
\* it is 0 when totalDistance is not positive.
C20_DistanceOverSamples ==
    RouteEvaluated =>
        \A k \in 1..Len(Get(frame).dangerousSegments) :
            LET segment == Get(frame).dangerousSegments[k]
                totalDistance == Get(frame).route.distance
                points == Len(Get(frame).route.coordinates)
                count == IF points <= 8 THEN points ELSE 8
            IN  segment.distanceFromStart =
                    IF totalDistance > 0
                    THEN TenthsOfKm(segment.segmentIndex, count, totalDistance)
                    ELSE 0

\* a route of two points whose end is dangerous: 6.2 km (half of 12.34 km),
\* where an eighth of the way would be 1.5 km
C20_Witness ==
    /\ RouteEvaluated
    /\ Len(Get(frame).route.coordinates) = 2
    /\ Get(frame).route.distance = 12340
    /\ Len(Get(frame).dangerousSegments) = 1
    /\ Get(frame).dangerousSegments[1].segmentIndex = 1
    /\ Get(frame).dangerousSegments[1].distanceFromStart = Num(6, 2)

---------------------------------------------------------------------------
(* The rate limiter of /api/gemini-analysis *)

\* the smaller of two numbers
Min(a, b) == IF a < b THEN a ELSE b

\* C23: for each client the limiter allows exactly the first RATE_LIMIT
\* requests of a window and refuses every further one with 429 until the clock
\* exceeds resetTime = opening time + RATE_WINDOW, the first request after
\* that opening a new window; a refused request changes neither the counter nor
\* resetTime, the stored counter never exceeds RATE_LIMIT, remainingRequests is
\* never negative, and the entry of the other client is left as it was.
C23_RateLimiter ==
    /\ \A ip \in ClientIPs :
        /\ IsNone(frame.requestCounts[ip]) <=> IsNone(caught[ip])
        /\ ~IsNone(caught[ip]) =>
            /\ Get(frame.requestCounts[ip]).count = Min(Get(caught[ip]).asked, RATE_LIMIT)
            /\ Get(frame.requestCounts[ip]).resetTime = Get(caught[ip]).opened + RATE_WINDOW
            /\ Get(frame.requestCounts[ip]).count <= RATE_LIMIT
    /\ ~IsNone(call) =>
        LET ip == Get(call).ip
            before == Get(call).requestCounts
            rateLimit == Get(response)
        IN  /\ rateLimit.allowed <=> Get(caught[ip]).asked <= RATE_LIMIT
            /\ rateLimit.allowed <=> IsNone(rateLimit.answer)
            /\ ~rateLimit.allowed =>
                /\ Get(rateLimit.answer).status = 429
                /\ frame.requestCounts = before
            /\ rateLimit.remainingRequests >= 0
            /\ rateLimit.allowed =>
                rateLimit.remainingRequests = RATE_LIMIT - Get(caught[ip]).asked
            /\ \A other \in ClientIPs \ {ip} :
                frame.requestCounts[other] = before[other]

\* a client whose window was full is allowed again, its request opening a new
\* window once the clock has passed resetTime, while the other client's window
\* is still counting
C23_Witness ==
    /\ ~IsNone(call)
    /\ LET ip == Get(call).ip
           before == Get(call).requestCounts
       IN  /\ ~IsNone(before[ip])
           /\ Get(before[ip]).count = RATE_LIMIT
           /\ Get(response).allowed
           /\ Get(frame.requestCounts[ip]).count = 1
           /\ \E other \in ClientIPs \ {ip} :
               /\ ~IsNone(frame.requestCounts[other])
               /\ Get(frame.requestCounts[other]).count \in 2..(RATE_LIMIT - 1)

\* a request is refused at the very instant the clock shows resetTime
C23_RefusedAtResetTime ==
    /\ ~IsNone(call)
    /\ ~Get(response).allowed
    /\ frame.now = Get(frame.requestCounts[Get(call).ip]).resetTime

---------------------------------------------------------------------------
(* The endpoint and its client *)

\* C27: a request that getSafetyAdvice builds with a vehicleType of the
\* VehicleType enum and the language vi or en passes the handler's
\* RequestSchema: it is never answered 400.
C27_EnumRequestsAccepted ==
    (/\ ~IsNone(response)
     /\ call.vehicleType \in {Some(VehicleType.CAR), Some(VehicleType.MOTORCYCLE),
                              Some(VehicleType.PEDESTRIAN)}
     /\ call.language \in {"vi", "en"})
        => Get(response).status # 400

\* C28: for one request the fallback of the handler and the fallback of
\* getSafetyAdvice give the same risk level and the same advice, whatever the
\* snapshot, the language and the stations are.
C28_SameFallback ==
    (/\ pc \in {"awaitResponse", "settled"}
     /\ ~IsNone(frame.locals)
     /\ ~IsNone(Get(frame.locals).fallback))
        => LET server == Get(Get(frame.locals).fallback)
               client == FallbackFrame(call.data, call.vehicleType, call.language,
                                       call.nearbyStations)
           IN  /\ server.fallbackRisk = client.fallbackRisk
               /\ server.fallbackAdvice = client.fallbackAdvice

\* C29: the confidence getSafetyAdvice resolves with is one of the
\* ConfidenceLevel values high, medium, low, whether the local fallback set it
\* or a 200 answer of the endpoint carried it.
C29_ConfidenceIsALevel ==
    (pc = "settled" /\ ret.state = "fulfilled")
        => ret.value.confidence \in Confidences

---------------------------------------------------------------------------
(* fetchWithRetry and fetchFloodData *)

\* the attempts among the first k entries of a log
RECURSIVE Attempts(_, _)
Attempts(log, k) ==
    IF k = 0 THEN 0
    ELSE Attempts(log, k - 1) + (IF log[k].event = "fetch" THEN 1 ELSE 0)

\* C22: fetchWithRetry makes at most retries + 1 attempts, returns the first
\* response that is ok and never one that is not, and before every attempt
\* after the first it has waited the backoff delay (1000 ms before the second,
\* 2000 ms before the third), whatever made the attempt before fail.
C22_RetryWithBackoff ==
    \A url \in DOMAIN frame :
        LET m == frame[url]
            log == m.log
        IN  /\ Attempts(log, Len(log)) <= m.retries + 1
            /\ m.at = "returned" =>
                /\ ok(Get(m.response))
                /\ log[Len(log)] = [event |-> "fetch", n |-> Get(m.response).status]
                /\ \A k \in 1..(Len(log) - 1) :
                       log[k].event = "fetch" => log[k].n \notin 200..299
            /\ \A k \in 2..Len(log) :
                   log[k].event = "fetch" =>
                       log[k - 1] = [event |-> "wait",
                                     n |-> 1000 * Attempts(log, k - 1)]

\* C30: when only the river discharge request of fetchFloodData fails for
\* good while the weather requests succeed, precip, precipForecast6h and
\* precip72h are the values the weather requests delivered and discharge
\* alone is 0.
C30_RainfallSurvivesDischargeFailure ==
    (/\ call.fn = "fetchFloodData"
     /\ pc = "settled"
     /\ frame["floodUrl"].at = "thrown"
     /\ frame["weatherUrl"].at = "returned"
     /\ frame["url72h"].at = "returned")
        => LET weatherData == Get(frame["weatherUrl"].response).body
           IN  /\ ret.state = "fulfilled"
               /\ ret.value.discharge = 0
               /\ ret.value.precip = Get(weatherData.current).precipitation
               /\ ret.value.precipForecast6h =
                      SumPrecipitation(Slice0(Get(Get(weatherData.hourly).precipitation), 6))
               /\ ret.value.precip72h = fetchPrecipitation72hResult(frame["url72h"])

---------------------------------------------------------------------------
(* The elevation cache *)

\* every key has a call that has returned a height it fetched, and the calls
\* ran at once: the one started last found all the others awaiting
BatchFetched ==
    /\ \A k \in CacheKeys :
        /\ ~IsNone(call[k])
        /\ Get(call[k]).at = "returned"
        /\ Get(call[k]).fetched
        /\ ~IsNone(Get(call[k]).elevation)
    /\ \E k \in CacheKeys : Get(call[k]).alongside = CacheKeys \ {k}

\* C25: when calls of fetchElevation for distinct cache keys run at once and
\* every one fetches a height, then once all have returned the cache in
\* localStorage holds an entry for every one of the keys.
C25_NoLostCacheEntries ==
    BatchFetched =>
        /\ ~IsNone(frame.item)
        /\ \A k \in CacheKeys : ~IsNone(Get(frame.item)[k])

\* C21: a point analysis or a route analysis that was started after a load of
\* the station list had completed, and has finished, passed to
\* findNearbyNCHMFStations the list the page held when it started: the one
\* fetched last, not an older one and not the initial empty list.
C21_FreshStationList ==
    IF IsNone(ret) THEN TRUE
    ELSE IF IsNone(Get(ret).passed) THEN TRUE
    ELSE Get(ret).nchmfStations # StationsLoaded(0)
            => Get(Get(ret).passed).allStations = Get(ret).nchmfStations

\* C24: a call of analyzePoint made once MAX_REQUESTS_PER_SESSION point
\* analyses have been started in the session stops at the limit message: it
\* starts no fetch and leaves the analysis as it found it.
C24_SessionLimit ==
    IF IsNone(ret) THEN TRUE
    ELSE (Get(ret).fn = "analyzePoint"
            /\ Get(ret).requestCount >= MAX_REQUESTS_PER_SESSION)
            => /\ Get(ret).limited
               /\ pc = "idle"
               /\ frame.analysis = Get(ret).analysis
               /\ frame.requestCount = Get(ret).requestCount

---------------------------------------------------------------------------
(* Clicks that overtake one another *)

\* every call of analyzePoint has returned, and the last one was made while
\* an earlier one had not finished
RaceOver ==
    /\ \A id \in CallIds : pc[id] = "returned"
    /\ Get(call[MaxCalls]).overlaps # {}

\* C26: when a call of analyzePoint is made before an earlier one has
\* finished, then once all have finished the page shows the analysis and the
\* location data of the call made last, in whatever order their requests
\* resolved.
C26_LatestPointShown ==
    RaceOver =>
        /\ frame.analysis = Get(call[MaxCalls]).shown
        /\ frame.selectedLocationData = Get(call[MaxCalls]).data

====
